---- MODULE Spec2Model ----
(***************************************************************************)
(* microjson (mjson.c): the object reader json_internal_read_object, the   *)
(* array reader json_read_array and the resolver json_target_address, as   *)
(* a state machine that advances one input byte per step.                  *)
(*                                                                         *)
(* Bytes are one-character strings; NUL is the terminator.  Caller storage *)
(* is one flat byte-addressed memory `mem`; address 0 is the NULL pointer. *)
(* A scalar is stored as one cell at its first byte: an int or unsigned    *)
(* as the signed value of its 32-bit pattern, a bool as 0 or 1, a double   *)
(* as an integer count of 1/RealScale, a char as a one-character string.   *)
(* Input positions are 1-based and 0 is the NULL end-cursor.               *)
(***************************************************************************)
EXTENDS Integers, Sequences, FiniteSets, TLC

VARIABLES
    input,      \* the NUL-terminated text handed to the parser (without the NUL)
    stack,      \* call stack of parser activations, innermost first
    ret,        \* <<>> or <<[status, end]>>: a value being returned to the caller
    mem,        \* caller storage: address -> value, defined where written
    wlog,       \* addresses written so far, in order
    results,    \* completed top-level calls: [status, end, mem]
    scen        \* the caller's scenario: schema, document(s), call pattern

vars == <<input, stack, ret, mem, wlog, results, scen>>

----------------------------------------------------------------------------
(* Program constants                                                       *)

JSON_ATTR_MAX == 31
JSON_VAL_MAX == 512

JSON_ERR_OBSTART == 1
JSON_ERR_ATTRSTART == 2
JSON_ERR_BADATTR == 3
JSON_ERR_ATTRLEN == 4
JSON_ERR_NOARRAY == 5
JSON_ERR_NOBRAK == 6
JSON_ERR_STRLONG == 7
JSON_ERR_TOKLONG == 8
JSON_ERR_BADTRAIL == 9
JSON_ERR_ARRAYSTART == 10
JSON_ERR_OBJARR == 11
JSON_ERR_SUBTOOLONG == 12
JSON_ERR_BADSUBTRAIL == 13
JSON_ERR_SUBTYPE == 14
JSON_ERR_BADSTRING == 15
JSON_ERR_CHECKFAIL == 16
JSON_ERR_NOPARSTR == 17
JSON_ERR_BADENUM == 18
JSON_ERR_QNONSTRING == 19
JSON_ERR_NONQSTRING == 19
JSON_ERR_MISC == 20
JSON_ERR_BADNUM == 21
JSON_ERR_NULLPTR == 22
JSON_ERR_NOCURLY == 23

\* sizeof(int), sizeof(double), sizeof(bool), sizeof(char *) on the LP64 build
SizeofInt == 4
SizeofDouble == 8
SizeofBool == 1
SizeofPtr == 8

\* a double is represented as an integer number of 1/RealScale
RealScale == 100

----------------------------------------------------------------------------
(* Bytes and C strings                                                     *)

NUL == "NUL"
BS == "BS"
QUOTE == "\""
BACKSLASH == "\\"

\* isspace() in the C locale (vertical tab left out of the alphabet)
isspace(c) == c \in {" ", "\t", "\n", "\f", "\r"}

DigitChars == <<"0", "1", "2", "3", "4", "5", "6", "7", "8", "9">>

isdigit(c) == \E i \in 1..10 : DigitChars[i] = c

DigitVal(c) == (CHOOSE i \in 1..10 : DigitChars[i] = c) - 1

\* *cp for a 1-based position; the terminator and everything after it read NUL
At(text, i) == IF i >= 1 /\ i <= Len(text) THEN text[i] ELSE NUL

MinOf(S) == CHOOSE x \in S : \A y \in S : x <= y

\* the C string held in a buffer: the bytes before the first NUL
CStr(buf) ==
    LET nuls == {i \in 1..Len(buf) : buf[i] = NUL}
    IN  IF nuls = {} THEN buf ELSE SubSeq(buf, 1, MinOf(nuls) - 1)

\* strchr(s, c) != NULL
strchr(s, c) == \E i \in 1..Len(s) : s[i] = c

RECURSIVE Pow10(_)
Pow10(n) == IF n <= 0 THEN 1 ELSE 10 * Pow10(n - 1)

\* value of a run of decimal digits
RECURSIVE DigitsVal(_)
DigitsVal(ds) ==
    IF ds = <<>> THEN 0
    ELSE 10 * DigitsVal(SubSeq(ds, 1, Len(ds) - 1)) + DigitVal(ds[Len(ds)])

\* index of the first byte at or after i that is not white space
RECURSIVE SkipSpace(_, _)
SkipSpace(s, i) == IF i <= Len(s) /\ isspace(s[i]) THEN SkipSpace(s, i + 1) ELSE i

\* number of consecutive decimal digits of s starting at i
RECURSIVE DigitSpan(_, _)
DigitSpan(s, i) == IF i <= Len(s) /\ isdigit(s[i]) THEN 1 + DigitSpan(s, i + 1) ELSE 0

\* atoi that drops the sign
atoi_ignoring_sign(s) ==
    LET p == SkipSpace(s, 1)
        q == IF At(s, p) \in {"-", "+"} THEN p + 1 ELSE p
    IN  DigitsVal(SubSeq(s, q, q + DigitSpan(s, q) - 1))

\* atoi(3): optional white space, optional sign, decimal digits; 0 if none
atoi(s) ==
    LET p == SkipSpace(s, 1)
        neg == At(s, p) = "-"
        q == IF At(s, p) \in {"-", "+"} THEN p + 1 ELSE p
        n == DigitSpan(s, q)
        v == DigitsVal(SubSeq(s, q, q + n - 1))
    IN  IF neg THEN 0 - v ELSE v

\* number of mantissa bytes (digits and at most one point) of s starting at i
RECURSIVE MantSpan(_, _, _)
MantSpan(s, i, seenPt) ==
    IF i > Len(s) THEN 0
    ELSE IF isdigit(s[i]) THEN 1 + MantSpan(s, i + 1, seenPt)
    ELSE IF s[i] = "." /\ ~seenPt THEN 1 + MantSpan(s, i + 1, TRUE)
    ELSE 0

\* largest possible base 10 exponent
maxExponent == 511

\* the last step of safe_atof: fraction times 10^exp0 with the exponent
\* clamped at maxExponent, negated when sign is set.  The result is in units
\* of 1/RealScale; anything finer is truncated toward zero.
atof_scale(sign, fraction, exp, negExp) ==
    (IF sign THEN 0 - 1 ELSE 1)
    * (IF negExp
       THEN (fraction * RealScale) \div Pow10(IF exp > maxExponent THEN maxExponent ELSE exp)
       ELSE fraction * RealScale * Pow10(IF exp > maxExponent THEN maxExponent ELSE exp))

\* the exponent part of safe_atof at position pExp: "E" or "e", a sign, digits
atof_exponent(s, pExp, e2) ==
    IF At(s, pExp) \in {"E", "e"}
    THEN (IF At(s, pExp + 1) = "-" THEN 0 - 1 ELSE 1)
         * DigitsVal(SubSeq(s, e2, e2 + DigitSpan(s, e2) - 1))
    ELSE 0

\* safe_atof once the mantissa is collected: mantSize digits `digits` with
\* decPt of them before the point; at most 18 digits are used
atof_value(sign, digits, decPt, ex) ==
    LET mantSize == IF Len(digits) > 18 THEN 18 ELSE Len(digits)
        exp0 == (decPt - mantSize) + ex
    IN  IF Len(digits) = 0 THEN 0
        ELSE atof_scale(sign, DigitsVal(SubSeq(digits, 1, mantSize)),
                        IF exp0 < 0 THEN 0 - exp0 ELSE exp0, exp0 < 0)

\* safe_atof from the first mantissa byte p1, the mantissa being span bytes
atof_mantissa(s, sign, p1, span) ==
    LET pts == {i \in 0..(span - 1) : At(s, p1 + i) = "."}
        e1 == p1 + span + 1
    IN  atof_value(sign,
                   SelectSeq(SubSeq(s, p1, p1 + span - 1), isdigit),
                   IF pts = {} THEN span ELSE MinOf(pts),
                   atof_exponent(s, p1 + span,
                                 IF At(s, e1) \in {"-", "+"} THEN e1 + 1 ELSE e1))

\* safe_atof from the first byte p0 that is not white space
atof_signed(s, p0) ==
    LET p1 == IF At(s, p0) \in {"-", "+"} THEN p0 + 1 ELSE p0
    IN  atof_mantissa(s, At(s, p0) = "-", p1, MantSpan(s, p1, FALSE))

\* safe_atof: "-I.FE-X" to a double
safe_atof(s) == atof_signed(s, SkipSpace(s, 1))

\* the bytes snprintf("%d") produces, without the terminator
RECURSIVE NatToStr(_)
NatToStr(n) ==
    IF n < 10 THEN <<DigitChars[n + 1]>>
    ELSE NatToStr(n \div 10) \o <<DigitChars[(n % 10) + 1]>>

IntToStr(v) == IF v < 0 THEN <<"-">> \o NatToStr(0 - v) ELSE NatToStr(v)

\* strncpy(dst, src, n): the n bytes written, src then NUL padding
strncpy(src, n) ==
    [i \in 1..n |-> IF i <= Len(src) THEN src[i] ELSE NUL]

----------------------------------------------------------------------------
(* Templates: struct json_attr_t and struct json_array_t                   *)

\* the cells a write of n consecutive bytes/values touches
Store(st, a, v) == [mem |-> (a :> v) @@ st.mem, wlog |-> Append(st.wlog, a)]

RECURSIVE StoreBytes(_, _, _)
StoreBytes(st, a, bytes) ==
    IF bytes = <<>> THEN st
    ELSE StoreBytes(Store(st, a, Head(bytes)), a + 1, Tail(bytes))

\* n bytes c
Repeat(c, n) == [i \in 1..n |-> c]

\* one struct json_attr_t; addr is the union addr_tag (a pointer, or the byte
\* offset of STRUCTOBJECT), array names the json_array_t of a t_array entry,
\* map is <<>> for NULL and <<entries>> otherwise
Attr(name, type, addr, dflt, len, map, nodefault) ==
    [attribute |-> name, type |-> type, addr |-> addr, array |-> "NULL",
     dflt |-> dflt, len |-> len, map |-> map, nodefault |-> nodefault]

ArrayAttr(name, array) ==
    [attribute |-> name, type |-> "t_array", addr |-> 0, array |-> array,
     dflt |-> 0, len |-> 0, map |-> <<>>, nodefault |-> FALSE]

EnumMap == << <<[name |-> <<"O", "N">>, value |-> 1],
                [name |-> <<"O", "F", "F">>, value |-> 5]>> >>

\* the templates the caller declares, without the {NULL} sentinel
Schema(id) ==
    CASE id = "basic" ->
           <<Attr(<<"c", "t">>, "t_integer", 16, 7, 0, <<>>, FALSE),
             Attr(<<"u", "n">>, "t_uinteger", 20, 8, 0, <<>>, FALSE),
             Attr(<<"r", "e">>, "t_real", 24, 250, 0, <<>>, FALSE),
             Attr(<<"f", "l">>, "t_boolean", 32, 1, 0, <<>>, FALSE),
             Attr(<<"s", "t">>, "t_string", 40, 0, 4, <<>>, FALSE)>>
      [] id = "enum" ->
           <<Attr(<<"e", "n">>, "t_integer", 16, 9, 0, EnumMap, FALSE),
             Attr(<<"c", "t">>, "t_integer", 20, 7, 0, <<>>, FALSE)>>
      [] id = "check" ->
           <<Attr(<<"c", "l">>, "t_check", 0, <<"A", "B">>, 0, <<>>, FALSE),
             Attr(<<"c", "t">>, "t_integer", 16, 7, 0, <<>>, FALSE)>>
      [] id = "multi" ->
           <<Attr(<<"x">>, "t_integer", 16, 7, 0, <<>>, FALSE),
             Attr(<<"x">>, "t_real", 24, 250, 0, <<>>, FALSE)>>
      [] id = "order" ->
           <<Attr(<<"s", "t">>, "t_string", 40, 0, 4, <<>>, FALSE),
             Attr(<<"x">>, "t_integer", 16, 7, 0, <<>>, FALSE),
             Attr(<<"x">>, "t_string", 48, 0, 4, <<>>, FALSE)>>
      [] id = "outer" ->
           <<ArrayAttr(<<"a", "r">>, "ints"),
             Attr(<<"c", "t">>, "t_integer", 16, 7, 0, <<>>, FALSE)>>
      [] id = "fields" ->   \* members of struct { int ct; char nm[4]; }
           <<Attr(<<"c", "l">>, "t_check", 0, <<"A", "B">>, 0, <<>>, FALSE),
             Attr(<<"c", "t">>, "t_integer", 0, 7, 0, <<>>, FALSE),
             Attr(<<"n", "m">>, "t_string", 4, 0, 4, <<>>, FALSE)>>
      [] id = "columns" ->  \* one parallel array per member
           <<Attr(<<"c", "l">>, "t_check", 0, <<"A", "B">>, 0, <<>>, FALSE),
             Attr(<<"c", "t">>, "t_integer", 80, 7, 0, <<>>, FALSE)>>
      [] id = "names" ->    \* names of JSON_ATTR_MAX - 1 and JSON_ATTR_MAX bytes
           <<Attr(Repeat("a", JSON_ATTR_MAX - 1), "t_integer", 16, 7, 0, <<>>, FALSE),
             Attr(Repeat("b", JSON_ATTR_MAX), "t_integer", 20, 8, 0, <<>>, FALSE)>>
      [] id = "shorts" ->
           <<Attr(<<"s", "h">>, "t_short", 16, 7, 0, <<>>, FALSE),
             Attr(<<"u", "s">>, "t_ushort", 18, 8, 0, <<>>, FALSE)>>
      [] id = "textcolumns" ->  \* parallel arrays with a string member
           <<Attr(<<"c", "t">>, "t_integer", 80, 7, 0, <<>>, FALSE),
             Attr(<<"n", "m">>, "t_string", 88, 0, 4, <<>>, FALSE)>>
      [] id = "bare" ->     \* the same, default-suppression set on the string
           <<Attr(<<"c", "t">>, "t_integer", 80, 7, 0, <<>>, FALSE),
             Attr(<<"n", "m">>, "t_string", 88, 0, 4, <<>>, TRUE)>>
      [] id = "sparse" ->   \* default-suppression set on all entries but "un"
           <<Attr(<<"c", "t">>, "t_integer", 16, 7, 0, <<>>, TRUE),
             Attr(<<"u", "n">>, "t_uinteger", 20, 8, 0, <<>>, FALSE),
             Attr(<<"f", "l">>, "t_boolean", 32, 1, 0, <<>>, TRUE),
             Attr(<<"s", "t">>, "t_string", 40, 0, 4, <<>>, TRUE)>>

\* one struct json_array_t, the members of union arr_tag side by side
ArrayT(element_type, subtype, base, stride, ptrs, store, storelen, count, maxlen) ==
    [element_type |-> element_type, subtype |-> subtype, base |-> base,
     stride |-> stride, ptrs |-> ptrs, store |-> store, storelen |-> storelen,
     count |-> count, maxlen |-> maxlen]

\* the kinds json_read_array rejects as element kind; an array template of
\* such a kind is named by the kind
InvalidKinds == {"t_time", "t_character", "t_array", "t_check", "t_ignore"}

Arrays(id) ==
    CASE id = "ints" -> ArrayT("t_integer", "NULL", 0, 0, 0, 64, 0, 60, 2)
      [] id = "bools" -> ArrayT("t_boolean", "NULL", 0, 0, 0, 64, 0, 60, 2)
      [] id = "strings" -> ArrayT("t_string", "NULL", 0, 0, 64, 96, 6, 60, 2)
      [] id = "structs" -> ArrayT("t_structobject", "fields", 128, 8, 0, 0, 0, 60, 2)
      [] id = "objects" -> ArrayT("t_object", "columns", 0, 0, 0, 0, 0, 60, 2)
      [] id = "reals" -> ArrayT("t_real", "NULL", 0, 0, 0, 64, 0, 60, 2)
      [] id = "textobjects" -> ArrayT("t_object", "textcolumns", 0, 0, 0, 0, 0, 60, 2)
      [] id = "bareobjects" -> ArrayT("t_object", "bare", 0, 0, 0, 0, 0, 60, 2)
      [] id \in InvalidKinds -> ArrayT(id, "NULL", 0, 0, 0, 64, 0, 60, 2)

\* cursor->attribute == NULL: the sentinel that ends a template
IsSentinel(attrs, i) == i > Len(Schema(attrs))

json_target_address(cursor, parent, offset) ==
    IF parent = "NULL" \/ Arrays(parent).element_type # "t_structobject"
    THEN CASE cursor.type = "t_ignore" -> 0
           [] cursor.type = "t_integer" -> cursor.addr + offset * SizeofInt
           [] cursor.type = "t_uinteger" -> cursor.addr + offset * SizeofInt
           [] cursor.type \in {"t_time", "t_real"} -> cursor.addr + offset * SizeofDouble
           [] cursor.type = "t_string" -> cursor.addr
           [] cursor.type = "t_boolean" -> cursor.addr + offset * SizeofBool
           [] cursor.type = "t_character" -> cursor.addr + offset
           [] OTHER -> 0
    ELSE Arrays(parent).base + (offset * Arrays(parent).stride) + cursor.addr

\* the test left out: a string entry is taken for every element
IsParallelString_never(parent, offset) == FALSE

\* a string entry of an element past the first of a parallel-array parent
IsParallelString(parent, offset) ==
    /\ parent # "NULL"
    /\ Arrays(parent).element_type # "t_structobject"
    /\ offset > 0

PrimeEntry_always(cursor, lptr, parent, offset, st) ==
    IF lptr = 0 THEN [st |-> st, status |-> 0]
    ELSE IF cursor.type \in {"t_integer", "t_uinteger", "t_time", "t_real",
                             "t_boolean", "t_character"}
    THEN [st |-> Store(st, lptr, cursor.dflt), status |-> 0]
    ELSE IF cursor.type = "t_string"
    THEN IF IsParallelString(parent, offset)
         THEN [st |-> st, status |-> JSON_ERR_NOPARSTR]
         ELSE [st |-> Store(st, lptr, NUL), status |-> 0]
    ELSE [st |-> st, status |-> 0]

\* one round of the priming loop for entry cursor with target lptr: the
\* storage after it and the status it returns early (0: go on)
PrimeEntry(cursor, lptr, parent, offset, st) ==
    IF cursor.nodefault \/ lptr = 0 THEN [st |-> st, status |-> 0]
    ELSE IF cursor.type \in {"t_integer", "t_uinteger", "t_time", "t_real",
                             "t_boolean", "t_character"}
    THEN [st |-> Store(st, lptr, cursor.dflt), status |-> 0]
    ELSE IF cursor.type = "t_string"
    THEN IF IsParallelString(parent, offset)
         THEN [st |-> st, status |-> JSON_ERR_NOPARSTR]
         ELSE [st |-> Store(st, lptr, NUL), status |-> 0]
    ELSE [st |-> st, status |-> 0]

\* the priming loop of json_internal_read_object from entry i on: the storage
\* after it and the status it returns early (0: ran to the sentinel)
RECURSIVE PrimeDefaults(_, _, _, _, _)
RECURSIVE PrimeFrom(_, _, _, _, _)
PrimeFrom(attrs, i, parent, offset, one) ==
    IF one.status # 0 THEN one
    ELSE PrimeDefaults(attrs, i, parent, offset, one.st)

PrimeDefaults(attrs, i, parent, offset, st) ==
    IF IsSentinel(attrs, i) THEN [st |-> st, status |-> 0]
    ELSE PrimeFrom(attrs, i + 1, parent, offset,
                   PrimeEntry(Schema(attrs)[i],
                              json_target_address(Schema(attrs)[i], parent, offset),
                              parent, offset, st))

----------------------------------------------------------------------------
(* Activations                                                             *)

\* the locals of one json_internal_read_object call.  pattr and pval are
\* offsets into attrbuf and valbuf, -1 for NULL; cursor indexes the template.
ObjectFrame(cp, attrs, parent, offset) ==
    [fn |-> "object", state |-> "init", cp |-> cp, attrs |-> attrs,
     parent |-> parent, offset |-> offset,
     attrbuf |-> <<>>, pattr |-> -1, valbuf |-> <<>>, pval |-> -1,
     value_quoted |-> FALSE, cursor |-> Len(Schema(attrs)) + 1, maxlen |-> 0,
     arr |-> "NULL", arrcount |-> 0, tp |-> 0]

\* the locals of one json_read_array call, at the top of its element loop
ArrayFrame(cp, arr) ==
    [fn |-> "array", state |-> "element", cp |-> cp, attrs |-> "NULL",
     parent |-> "NULL", offset |-> 0,
     attrbuf |-> <<>>, pattr |-> -1, valbuf |-> <<>>, pval |-> -1,
     value_quoted |-> FALSE, cursor |-> 0, maxlen |-> 0,
     arr |-> arr, arrcount |-> 0, tp |-> Arrays(arr).store]

Returned(status, end) == <<[status |-> status, end |-> end]>>

\* the activation on top runs function fn and no return value is in flight
Running(fn) == stack # <<>> /\ ret = <<>> /\ Head(stack).fn = fn

\* the object reader is in state s and its loop condition *cp != '\0' holds
InState(s) ==
    /\ Running("object")
    /\ Head(stack).state = s
    /\ At(input, Head(stack).cp) # NUL

\* the switch ends with break or continue: the for loop's cp++ follows
Advance(f) ==
    /\ stack' = <<[f EXCEPT !.cp = f.cp + 1]>> \o Tail(stack)
    /\ UNCHANGED <<input, ret, mem, wlog, results, scen>>

\* return status; *end keeps the NULL it was given on entry
Fail(status) ==
    /\ stack' = Tail(stack)
    /\ ret' = Returned(status, 0)
    /\ UNCHANGED <<input, mem, wlog, results, scen>>

\* good_parse: consume trailing white space from cp, expose the end, return 0
GoodParse(cp) ==
    /\ stack' = Tail(stack)
    /\ ret' = Returned(0, SkipSpace(input, cp))
    /\ UNCHANGED <<input, mem, wlog, results, scen>>

\* after the priming loop: return its early status, or start the scan
StartScan(primed, frame, callers) ==
    /\ mem' = primed.st.mem
    /\ wlog' = primed.st.wlog
    /\ IF primed.status # 0
       THEN stack' = callers /\ ret' = Returned(primed.status, 0)
       ELSE stack' = <<frame>> \o callers /\ ret' = <<>>

\* entry of json_internal_read_object: *end = NULL, prime the defaults, and
\* either return JSON_ERR_NOPARSTR or start the scan at cp
EnterObject(cp, attrs, parent, offset, callers, st) ==
    StartScan(PrimeDefaults(attrs, 1, parent, offset, st),
              ObjectFrame(cp, attrs, parent, offset), callers)

----------------------------------------------------------------------------
(* json_internal_read_object: one action per state of its switch           *)

init ==
    /\ InState("init")
    /\ LET f == Head(stack)
           c == At(input, f.cp)
       IN  IF isspace(c) THEN Advance(f)
           ELSE IF c = "{" THEN Advance([f EXCEPT !.state = "await_attr"])
           ELSE Fail(JSON_ERR_OBSTART)

await_attr ==
    /\ InState("await_attr")
    /\ LET f == Head(stack)
           c == At(input, f.cp)
       IN  IF isspace(c) THEN Advance(f)
           ELSE IF c = QUOTE
           THEN Advance([f EXCEPT !.state = "in_attr", !.pattr = 0, !.attrbuf = <<>>])
           ELSE IF c = "}" THEN Advance(f)    \* break leaves the switch only
           ELSE Fail(JSON_ERR_ATTRSTART)

\* a scan that settles on the first entry when no name matches
LookupAttr_first_on_miss(attrs, name) ==
    LET hits == {i \in 1..Len(Schema(attrs)) : Schema(attrs)[i].attribute = name}
    IN  IF hits = {} THEN 1 ELSE MinOf(hits)

\* the template entry the linear scan stops at: the first whose name equals
\* attrbuf, or the sentinel
LookupAttr(attrs, name) ==
    LET hits == {i \in 1..Len(Schema(attrs)) : Schema(attrs)[i].attribute = name}
    IN  IF hits = {} THEN Len(Schema(attrs)) + 1 ELSE MinOf(hits)

\* maxlen after the name matched entry e; unchanged for the other kinds
SelectMaxlen(e, maxlen) ==
    IF e.type = "t_string" THEN e.len - 1
    ELSE IF e.type = "t_check" THEN Len(e.dflt)
    ELSE IF e.type \in {"t_time", "t_ignore"} THEN JSON_VAL_MAX
    ELSE IF e.map # <<>> THEN (JSON_VAL_MAX + 1) - 1
    ELSE maxlen

in_attr ==
    /\ InState("in_attr")
    /\ LET f == Head(stack)
           c == At(input, f.cp)
       IN  IF f.pattr = -1 THEN Fail(JSON_ERR_NULLPTR)
           ELSE IF c = QUOTE
           THEN LET name == CStr(Append(f.attrbuf, NUL))
                    cursor == LookupAttr(f.attrs, name)
                IN  IF IsSentinel(f.attrs, cursor) THEN Fail(JSON_ERR_BADATTR)
                    ELSE Advance([f EXCEPT
                            !.attrbuf = Append(f.attrbuf, NUL),
                            !.pattr = f.pattr + 1,
                            !.cursor = cursor,
                            !.state = "await_value",
                            !.maxlen = SelectMaxlen(Schema(f.attrs)[cursor], f.maxlen),
                            !.pval = 0, !.valbuf = <<>>])
           ELSE IF f.pattr >= JSON_ATTR_MAX - 1 THEN Fail(JSON_ERR_ATTRLEN)
           ELSE Advance([f EXCEPT !.attrbuf = Append(f.attrbuf, c),
                                  !.pattr = f.pattr + 1])

\* breakout of json_read_array: publish the count and the end, return 0
Breakout(arr, arrcount, cp, callers, st) ==
    LET st2 == IF Arrays(arr).count # 0 THEN Store(st, Arrays(arr).count, arrcount) ELSE st
    IN  /\ mem' = st2.mem
        /\ wlog' = st2.wlog
        /\ stack' = callers
        /\ ret' = Returned(0, cp)

ArrayFail_publishing_count(status, callers, st) ==
    /\ mem' = Store(st, 60, 0).mem
    /\ wlog' = Store(st, 60, 0).wlog
    /\ stack' = callers
    /\ ret' = Returned(status, 0)

\* return status from json_read_array with the storage as written so far
ArrayFail(status, callers, st) ==
    /\ mem' = st.mem
    /\ wlog' = st.wlog
    /\ stack' = callers
    /\ ret' = Returned(status, 0)

\* entry of json_read_array, up to the first test of the element loop
EnterArrayOn(text, cp, arr, callers, st) ==
    LET p == SkipSpace(text, cp)
        q == SkipSpace(text, p + 1)
    IN  IF At(text, p) # "[" THEN ArrayFail(JSON_ERR_ARRAYSTART, callers, st)
        ELSE IF At(text, q) = "]" THEN Breakout(arr, 0, q, callers, st)
        ELSE IF ~(0 < Arrays(arr).maxlen) THEN ArrayFail(JSON_ERR_SUBTOOLONG, callers, st)
        ELSE /\ stack' = <<ArrayFrame(q, arr)>> \o callers
             /\ ret' = <<>>
             /\ mem' = st.mem
             /\ wlog' = st.wlog

\* the same on the text being scanned and the storage as it is
EnterArray(cp, arr, callers) ==
    EnterArrayOn(input, cp, arr, callers, [mem |-> mem, wlog |-> wlog])

await_value ==
    /\ InState("await_value")
    /\ LET f == Head(stack)
           c == At(input, f.cp)
           cursor == Schema(f.attrs)[f.cursor]
       IN  IF isspace(c) \/ c = ":" THEN Advance(f)
           ELSE IF c = "["
           THEN IF cursor.type # "t_array" THEN Fail(JSON_ERR_NOARRAY)
                ELSE /\ EnterArray(f.cp, cursor.array, stack)
                     /\ UNCHANGED <<input, results, scen>>
           ELSE IF cursor.type = "t_array" THEN Fail(JSON_ERR_NOBRAK)
           ELSE IF c = QUOTE
           THEN Advance([f EXCEPT !.value_quoted = TRUE, !.state = "in_val_string",
                                  !.pval = 0, !.valbuf = <<>>])
           ELSE Advance([f EXCEPT !.value_quoted = FALSE, !.state = "in_val_token",
                                  !.pval = 1, !.valbuf = <<c>>])

\* json_read_array has returned into await_value
await_value_return ==
    /\ stack # <<>> /\ ret # <<>>
    /\ Head(stack).fn = "object"
    /\ LET f == Head(stack)
           substatus == ret[1].status
       IN  IF substatus # 0
           THEN /\ stack' = Tail(stack)
                /\ ret' = Returned(substatus, 0)
                /\ UNCHANGED <<input, mem, wlog, results, scen>>
           ELSE /\ stack' = <<[f EXCEPT !.cp = ret[1].end + 1, !.state = "post_array"]>>
                             \o Tail(stack)
                /\ ret' = <<>>
                /\ UNCHANGED <<input, mem, wlog, results, scen>>

\* what a call that never returns leaves in place of a status: the process
\* was terminated
Aborted == 0 - 1

\* where a store through a pointer that the overrun clobbered can land: cells
\* no template declares
WildAddresses == {8}

\* *pval++ = b with pval past valbuf[JSON_VAL_MAX]: the store lands in other
\* stack memory of the call.  The behaviour is undefined: the build may go on
\* as if nothing happened, terminate the process, or go on to store through
\* a pointer the overrun clobbered.
Overrun(next) ==
    \/ Advance(next)
    \/ /\ stack' = <<>>
       /\ ret' = Returned(Aborted, 0)
       /\ UNCHANGED <<input, mem, wlog, results, scen>>
    \/ \E a \in WildAddresses :
           /\ mem' = (a :> next.valbuf[Len(next.valbuf)]) @@ mem
           /\ wlog' = Append(wlog, a)
           /\ stack' = <<[next EXCEPT !.cp = next.cp + 1]>> \o Tail(stack)
           /\ UNCHANGED <<input, ret, results, scen>>

\* *pval++ = b where no test guards pval: next is the frame after the store
StoreByte(f, next) ==
    IF f.pval > JSON_VAL_MAX THEN Overrun(next) ELSE Advance(next)

in_val_string ==
    /\ InState("in_val_string")
    /\ LET f == Head(stack)
           c == At(input, f.cp)
       IN  IF f.pval = -1 THEN Fail(JSON_ERR_NULLPTR)
           ELSE IF c = BACKSLASH THEN Advance([f EXCEPT !.state = "in_escape"])
           ELSE IF c = QUOTE
           THEN StoreByte(f, [f EXCEPT !.valbuf = Append(f.valbuf, NUL),
                                       !.pval = f.pval + 1, !.state = "post_val"])
           ELSE IF f.pval > JSON_VAL_MAX - 1 \/ f.pval > f.maxlen
           THEN Fail(JSON_ERR_STRLONG)
           ELSE Advance([f EXCEPT !.valbuf = Append(f.valbuf, c), !.pval = f.pval + 1])

\* the bytes (char)u can be: u is never assigned, sscanf("%04x") stops at the
\* 'u' that the copy loop puts first in uescape
IndeterminateBytes == {NUL, "x", "A"}

\* how many rounds the \u copy loop can make from cp: round n tests cp[2n],
\* and a byte past the terminator may read as NUL or not
EscapeRounds(text, cp) ==
    LET CanBeNul(i) == i > Len(text)
        CanBeSet(i) == i <= Len(text) \/ i > Len(text) + 1
    IN  {n \in 1..4 : /\ \A k \in 1..(n - 1) : CanBeSet(cp + 2 * k)
                      /\ n < 4 => CanBeNul(cp + 2 * n)}

\* the positions the test `cp[n] != '\0'` of the \u copy loop reads whatever
\* the input is: round 0 reads cp[0], and round 1, with cp one further and
\* n = 1, reads two bytes after the `u`
EscapeTests(cp) == {cp, cp + 2}

in_escape ==
    /\ InState("in_escape")
    /\ LET f == Head(stack)
           c == At(input, f.cp)
           Put(b) == [f EXCEPT !.valbuf = Append(f.valbuf, b), !.pval = f.pval + 1,
                               !.state = "in_val_string"]
       IN  IF f.pval = -1 THEN Fail(JSON_ERR_NULLPTR)
           ELSE IF c = "b" THEN StoreByte(f, Put(BS))
           ELSE IF c = "f" THEN StoreByte(f, Put("\f"))
           ELSE IF c = "n" THEN StoreByte(f, Put("\n"))
           ELSE IF c = "r" THEN StoreByte(f, Put("\r"))
           ELSE IF c = "t" THEN StoreByte(f, Put("\t"))
           ELSE IF c = "u"
           THEN \E n \in EscapeRounds(input, f.cp), b \in IndeterminateBytes :
                    StoreByte(f, [Put(b) EXCEPT !.cp = f.cp + n - 1])
           ELSE StoreByte(f, Put(c))

in_val_token ==
    /\ InState("in_val_token")
    /\ LET f == Head(stack)
           c == At(input, f.cp)
           ended == [f EXCEPT !.valbuf = Append(f.valbuf, NUL), !.state = "post_val"]
       IN  IF f.pval = -1 THEN Fail(JSON_ERR_NULLPTR)
           ELSE IF isspace(c) THEN Advance(ended)
           ELSE IF c \in {",", "}"}
           THEN Advance([ended EXCEPT !.cp = f.cp - 1])    \* --cp pushes it back
           ELSE IF f.pval > JSON_VAL_MAX - 1 THEN Fail(JSON_ERR_TOKLONG)
           ELSE Advance([f EXCEPT !.valbuf = Append(f.valbuf, c), !.pval = f.pval + 1])

\* a seek that never leaves the first entry matching the name
TypeSeek_no_advance(attrs, cursor, value_quoted, valbuf, attrbuf) == cursor

\* the seek loop at the top of post_val: from the first entry matching the
\* name, forward through adjacent entries of the same name, to the first whose
\* type fits what was scanned
RECURSIVE TypeSeek(_, _, _, _, _)
TypeSeek(attrs, cursor, value_quoted, valbuf, attrbuf) ==
    LET seeking == Schema(attrs)[cursor].type
        v == CStr(valbuf)
        decimal == strchr(v, ".")
    IN  IF value_quoted /\ seeking \in {"t_string", "t_time"} THEN cursor
        ELSE IF (v = <<"t", "r", "u", "e">> \/ v = <<"f", "a", "l", "s", "e">>)
                /\ seeking = "t_boolean" THEN cursor
        ELSE IF isdigit(At(valbuf, 1)) /\ decimal /\ seeking = "t_real" THEN cursor
        ELSE IF isdigit(At(valbuf, 1)) /\ ~decimal
                /\ seeking \in {"t_integer", "t_uinteger"} THEN cursor
        ELSE IF IsSentinel(attrs, cursor + 1) THEN cursor
        ELSE IF Schema(attrs)[cursor + 1].attribute # CStr(attrbuf) THEN cursor
        ELSE TypeSeek(attrs, cursor + 1, value_quoted, valbuf, attrbuf)

\* the map entry the enum loop stops at, 0 if it runs to the NULL name
EnumLookup(map, v) ==
    LET hits == {i \in 1..Len(map[1]) : map[1][i].name = v}
    IN  IF hits = {} THEN 0 ELSE MinOf(hits)

\* the conversion switch of post_val for entry e, target lptr and the C
\* string v in valbuf (entries of kind t_time are not declared by any
\* template here)
ConvertTo(e, lptr, parent, offset, v, st) ==
    LET ok(st2) == [status |-> 0, st |-> st2]
        err(code) == [status |-> code, st |-> st]
    IN  IF lptr = 0 THEN ok(st)
        ELSE CASE e.type = "t_integer" -> ok(Store(st, lptr, atoi(v)))
               [] e.type = "t_uinteger" -> ok(Store(st, lptr, atoi(v)))
               [] e.type = "t_real" -> ok(Store(st, lptr, safe_atof(v)))
               [] e.type = "t_string" ->
                    IF IsParallelString(parent, offset) THEN err(JSON_ERR_NOPARSTR)
                    ELSE ok(StoreBytes(st, lptr, strncpy(v, e.len)))
               [] e.type = "t_boolean" ->
                    ok(Store(st, lptr, IF v = <<"t", "r", "u", "e">> THEN 1 ELSE 0))
               [] e.type = "t_character" ->
                    IF Len(v) > 1 THEN err(JSON_ERR_STRLONG)
                    ELSE ok(Store(st, lptr, At(v, 1)))
               [] e.type = "t_check" ->
                    IF e.dflt # v THEN err(JSON_ERR_CHECKFAIL) ELSE ok(st)
               [] OTHER -> ok(st)

\* lptr = json_target_address(cursor, parent, offset), then the switch
Commit(e, parent, offset, valbuf, st) ==
    ConvertTo(e, json_target_address(e, parent, offset), parent, offset,
              CStr(valbuf), st)

\* post_val after the seek, for entry e, the map entry mp the enum loop
\* stopped at (0: none) and the value buffer after foundit: legality checks,
\* commit
PostValAt(f, e, mp, valbuf, st) ==
    IF f.value_quoted
       /\ e.type \notin {"t_string", "t_character", "t_check", "t_time", "t_ignore"}
       /\ e.map = <<>>
    THEN [status |-> JSON_ERR_QNONSTRING, st |-> st, f |-> f]
    ELSE IF ~f.value_quoted
            /\ (e.type \in {"t_string", "t_check", "t_time"} \/ e.map # <<>>)
    THEN [status |-> JSON_ERR_NONQSTRING, st |-> st, f |-> f]
    ELSE IF e.map # <<>> /\ mp = 0
    THEN [status |-> JSON_ERR_BADENUM, st |-> st, f |-> f]
    ELSE [f |-> [f EXCEPT !.valbuf = valbuf]]
         @@ Commit(e, f.parent, f.offset, valbuf, st)

\* valbuf after the enum step: the decimal text of the mapped value
EnumText(map, mp, valbuf) ==
    IF map # <<>> /\ mp # 0 THEN Append(IntToStr(map[1][mp].value), NUL) ELSE valbuf

\* post_val for entry e, with the enum loop run
PostValEnum(f, e, mp, st) ==
    PostValAt(f, e, mp, EnumText(e.map, mp, f.valbuf), st)

\* post_val with the cursor at the entry the seek settled on
PostValFor(f, e, st) ==
    PostValEnum(f, e, IF e.map # <<>> THEN EnumLookup(e.map, CStr(f.valbuf)) ELSE 0, st)

\* post_val once the seek loop has left the cursor at entry `cursor`
PostValSeek(f, cursor, st) ==
    PostValFor([f EXCEPT !.cursor = cursor], Schema(f.attrs)[cursor], st)

\* post_val up to the fall through: the status, the storage, the frame
PostVal(f, st) ==
    PostValSeek(f, TypeSeek(f.attrs, f.cursor, f.value_quoted, f.valbuf, f.attrbuf), st)

\* case post_array, entered at its label or by falling through from post_val
PostArray(f, st) ==
    LET c == At(input, f.cp)
    IN  /\ mem' = st.mem
        /\ wlog' = st.wlog
        /\ UNCHANGED <<input, results, scen>>
        /\ IF isspace(c)
           THEN stack' = <<[f EXCEPT !.cp = f.cp + 1]>> \o Tail(stack) /\ ret' = ret
           ELSE IF c = ","
           THEN stack' = <<[f EXCEPT !.cp = f.cp + 1, !.state = "await_attr"]>>
                         \o Tail(stack) /\ ret' = ret
           ELSE IF c = "}"
           THEN stack' = Tail(stack) /\ ret' = Returned(0, SkipSpace(input, f.cp + 1))
           ELSE stack' = Tail(stack) /\ ret' = Returned(JSON_ERR_BADTRAIL, 0)

\* return the status post_val stopped with, or fall through to post_array
FallThrough(pv) ==
    IF pv.status # 0 THEN Fail(pv.status) ELSE PostArray(pv.f, pv.st)

post_val ==
    /\ InState("post_val")
    /\ FallThrough(PostVal(Head(stack), [mem |-> mem, wlog |-> wlog]))

post_array ==
    /\ InState("post_array")
    /\ PostArray(Head(stack), [mem |-> mem, wlog |-> wlog])

\* the for loop meets the terminator: control runs into good_parse
good_parse ==
    /\ Running("object")
    /\ At(input, Head(stack).cp) = NUL
    /\ GoodParse(Head(stack).cp)

\* the loop test *cp != '\0' with cp past the terminator reads a byte that
\* is not part of the input: it may read as NUL (good_parse above), or the
\* scan runs on through memory the caller never passed and the process ends
scan_past_terminator ==
    /\ Running("object")
    /\ Head(stack).cp > Len(input) + 1
    /\ stack' = <<>>
    /\ ret' = Returned(Aborted, 0)
    /\ UNCHANGED <<input, mem, wlog, results, scen>>

----------------------------------------------------------------------------
(* json_read_array                                                         *)

\* value of a run of digits in base b (digits are below b)
RECURSIVE BaseVal(_, _)
BaseVal(ds, b) ==
    IF ds = <<>> THEN 0
    ELSE b * BaseVal(SubSeq(ds, 1, Len(ds) - 1), b) + DigitVal(ds[Len(ds)])

RECURSIVE OctalSpan(_, _)
OctalSpan(s, i) ==
    IF i <= Len(s) /\ isdigit(s[i]) /\ DigitVal(s[i]) < 8
    THEN 1 + OctalSpan(s, i + 1) ELSE 0

\* strtol(cp, &ep, 0) on the text at position cp, for the decimal and octal
\* forms (no hexadecimal letter is in the alphabet used here): the value, and
\* ep, which equals cp when there is no conversion
strtol(text, cp) ==
    LET p == SkipSpace(text, cp)
        neg == At(text, p) = "-"
        q == IF At(text, p) \in {"-", "+"} THEN p + 1 ELSE p
        octal == At(text, q) = "0"
        n == IF octal THEN OctalSpan(text, q) ELSE DigitSpan(text, q)
        v == BaseVal(SubSeq(text, q, q + n - 1), IF octal THEN 8 ELSE 10)
    IN  IF n = 0 THEN [val |-> 0, ep |-> cp]
        ELSE [val |-> IF neg THEN 0 - v ELSE v, ep |-> q + n]

\* strtod(cp, &ep) for the decimal forms: a mantissa of span bytes from q with
\* at least one digit, then an exponent if digits follow the "e"
strtod_from(text, cp, p, q, span, e2) ==
    IF SelectSeq(SubSeq(text, q, q + span - 1), isdigit) = <<>>
    THEN [val |-> 0, ep |-> cp]
    ELSE IF At(text, q + span) \in {"e", "E"} /\ isdigit(At(text, e2))
    THEN [val |-> safe_atof(SubSeq(text, p, e2 + DigitSpan(text, e2) - 1)),
          ep |-> e2 + DigitSpan(text, e2)]
    ELSE [val |-> safe_atof(SubSeq(text, p, q + span - 1)), ep |-> q + span]

strtod_mantissa(text, cp, p, q, span) ==
    strtod_from(text, cp, p, q, span,
                IF At(text, q + span + 1) \in {"-", "+"}
                THEN q + span + 2 ELSE q + span + 1)

strtod_signed(text, cp, p, q) ==
    strtod_mantissa(text, cp, p, q, MantSpan(text, q, FALSE))

strtod_skipped(text, cp, p) ==
    strtod_signed(text, cp, p, IF At(text, p) \in {"-", "+"} THEN p + 1 ELSE p)

\* strtod(cp, &ep): the value, and ep, which equals cp when there is no
\* conversion
strtod(text, cp) == strtod_skipped(text, cp, SkipSpace(text, cp))

\* strncmp(cp, word, Len(word)) == 0
HasPrefix(text, cp, word) ==
    \A i \in 1..Len(word) : At(text, cp + i - 1) = word[i]

\* the copy loop of a t_string element from input position cp to store
\* address tp: status 0 at stringend, JSON_ERR_BADSTRING otherwise
RECURSIVE CopyString(_, _, _, _)
CopyString(arr, cp, tp, st) ==
    IF ~(tp - Arrays(arr).store < Arrays(arr).storelen)
    THEN [status |-> JSON_ERR_BADSTRING, cp |-> cp, tp |-> tp, st |-> st]
    ELSE IF At(input, cp) = QUOTE
    THEN [status |-> 0, cp |-> cp + 1, tp |-> tp + 1, st |-> Store(st, tp, NUL)]
    ELSE IF At(input, cp) = NUL
    THEN [status |-> JSON_ERR_BADSTRING, cp |-> cp, tp |-> tp, st |-> st]
    ELSE CopyString(arr, cp + 1, tp + 1, Store(st, tp, At(input, cp)))

\* the end of one round of the element loop, from arrcount++ to the loop test
ElementTrail(f, cp0, tp, st) ==
    LET arrcount == f.arrcount + 1
        cp == IF isspace(At(input, cp0)) THEN cp0 + 1 ELSE cp0
    IN  IF At(input, cp) = "]" THEN Breakout(f.arr, arrcount, cp, Tail(stack), st)
        ELSE IF At(input, cp) # "," THEN ArrayFail(JSON_ERR_BADSUBTRAIL, Tail(stack), st)
        ELSE IF ~(f.offset + 1 < Arrays(f.arr).maxlen)
        THEN ArrayFail(JSON_ERR_SUBTOOLONG, Tail(stack), st)
        ELSE /\ stack' = <<[f EXCEPT !.cp = cp + 1, !.offset = f.offset + 1,
                                     !.arrcount = arrcount, !.tp = tp]>> \o Tail(stack)
             /\ ret' = <<>>
             /\ mem' = st.mem
             /\ wlog' = st.wlog

\* a numeric element: the conversion n is stored in slot offset, then ep is
\* compared with cp
NumberElement(f, n, size, st) ==
    IF n.ep = f.cp
    THEN ArrayFail(JSON_ERR_BADNUM, Tail(stack),
                   Store(st, Arrays(f.arr).store + f.offset * size, n.val))
    ELSE ElementTrail(f, n.ep, f.tp,
                      Store(st, Arrays(f.arr).store + f.offset * size, n.val))

\* one round of the element loop (an object element: up to the call)
array_element ==
    /\ Running("array")
    /\ UNCHANGED <<input, results, scen>>
    /\ LET f == Head(stack)
           a == Arrays(f.arr)
           st == [mem |-> mem, wlog |-> wlog]
       IN  CASE a.element_type = "t_string" ->
                  LET cp1 == IF isspace(At(input, f.cp)) THEN f.cp + 1 ELSE f.cp
                      st1 == Store(st, a.ptrs + f.offset * SizeofPtr, f.tp)
                      copied == CopyString(f.arr, cp1 + 1, f.tp, st1)
                  IN  IF At(input, cp1) # QUOTE
                      THEN ArrayFail(JSON_ERR_BADSTRING, Tail(stack), st)
                      ELSE IF copied.status # 0
                      THEN ArrayFail(copied.status, Tail(stack), copied.st)
                      ELSE ElementTrail(f, copied.cp, copied.tp, copied.st)
             [] a.element_type \in {"t_object", "t_structobject"} ->
                  EnterObject(f.cp, a.subtype, f.arr, f.offset, stack, st)
             [] a.element_type \in {"t_integer", "t_uinteger"} ->
                  NumberElement(f, strtol(input, f.cp), SizeofInt, st)
             [] a.element_type = "t_real" ->
                  NumberElement(f, strtod(input, f.cp), SizeofDouble, st)
             [] a.element_type = "t_boolean" ->
                  IF HasPrefix(input, f.cp, <<"t", "r", "u", "e">>)
                  THEN ElementTrail(f, f.cp + 4, f.tp,
                                    Store(st, a.store + f.offset * SizeofBool, 1))
                  ELSE IF HasPrefix(input, f.cp, <<"f", "a", "l", "s", "e">>)
                  THEN ElementTrail(f, f.cp + 5, f.tp,
                                    Store(st, a.store + f.offset * SizeofBool, 0))
                  ELSE ElementTrail(f, f.cp, f.tp, st)
             [] a.element_type \in InvalidKinds ->
                  ArrayFail(JSON_ERR_SUBTYPE, Tail(stack), st)
             [] a.element_type \in {"t_short", "t_ushort"} ->   \* no case label
                  ElementTrail(f, f.cp, f.tp, st)

\* json_internal_read_object has returned into the element loop
array_element_return ==
    /\ stack # <<>> /\ ret # <<>>
    /\ Head(stack).fn = "array"
    /\ UNCHANGED <<input, results, scen>>
    /\ LET f == Head(stack)
           st == [mem |-> mem, wlog |-> wlog]
       IN  IF ret[1].status # 0 THEN ArrayFail(ret[1].status, Tail(stack), st)
           ELSE ElementTrail(f, ret[1].end, f.tp, st)

----------------------------------------------------------------------------
(* The caller: documents, their text, and the calls it makes               *)

MaxPairs == 2       \* attribute/value pairs per object
MaxObjects == 2     \* objects in one concatenated input
MaxElements == 3    \* elements per array

\* one attribute/value pair of a document: the name, the value text, whether
\* the value is quoted, and the value a correct conversion stores
Pair(name, text, quoted, val) ==
    [name |-> name, text |-> text, quoted |-> quoted, val |-> val]

\* values that are lexically valid for the entries of template "basic"
BasicPairs ==
    {Pair(<<"c", "t">>, <<"4", "2">>, FALSE, 42),
     Pair(<<"c", "t">>, <<"-", "3">>, FALSE, 0 - 3),
     Pair(<<"u", "n">>, <<"5">>, FALSE, 5),
     Pair(<<"r", "e">>, <<"1", ".", "5", "e", "2">>, FALSE, 15000),
     Pair(<<"r", "e">>, <<"-", "3", ".", "2", "5">>, FALSE, 0 - 325),
     Pair(<<"f", "l">>, <<"t", "r", "u", "e">>, FALSE, 1),
     Pair(<<"f", "l">>, <<"f", "a", "l", "s", "e">>, FALSE, 0),
     Pair(<<"s", "t">>, <<"a", "b", "c">>, TRUE, <<"a", "b", "c", NUL>>),
     Pair(<<"s", "t">>, <<"a", BACKSLASH, "n">>, TRUE, <<"a", "\n", NUL, NUL>>)}

\* an attribute no template declares
UnknownPairs == {Pair(<<"z", "z">>, <<"1">>, FALSE, 0)}

\* string values of len and of len + 1 bytes for the 4-byte buffer of "st"
LongPairs ==
    {Pair(<<"s", "t">>, <<"a", "b", "c", "d">>, TRUE, 0),
     Pair(<<"s", "t">>, <<"a", "b", "c", "d", "e">>, TRUE, 0)}

EnumPairs ==
    {Pair(<<"e", "n">>, <<"O", "N">>, TRUE, 1),
     Pair(<<"e", "n">>, <<"O", "F", "F">>, TRUE, 5),
     Pair(<<"e", "n">>, <<"O", "F">>, TRUE, 0),
     Pair(<<"c", "t">>, <<"4", "2">>, FALSE, 42)}

CheckPairs ==
    {Pair(<<"c", "l">>, <<"A", "B">>, TRUE, 0),
     Pair(<<"c", "l">>, <<"A", "C">>, TRUE, 0),
     Pair(<<"c", "l">>, <<"A">>, TRUE, 0),
     Pair(<<"c", "l">>, <<"A", "B", "C">>, TRUE, 0),
     Pair(<<"c", "t">>, <<"4", "2">>, FALSE, 42)}

MultiPairs ==
    {Pair(<<"x">>, <<"3">>, FALSE, 3),
     Pair(<<"x">>, <<"1", "2">>, FALSE, 12),
     Pair(<<"x">>, <<"3", ".", "0">>, FALSE, 300),
     Pair(<<"x">>, <<"1", ".", "5">>, FALSE, 150)}

OrderPairs ==
    {Pair(<<"s", "t">>, <<"a", "b">>, TRUE, <<"a", "b", NUL, NUL>>),
     Pair(<<"x">>, <<"c", "d">>, TRUE, <<"c", "d", NUL, NUL>>),
     Pair(<<"x">>, <<"4", "2">>, FALSE, 42)}

\* the documents of at most n pairs from P in which no name occurs twice
DocsOf(P, n) ==
    {d \in UNION {[1..k -> P] : k \in 0..n} :
        \A i, j \in 1..Len(d) : d[i].name = d[j].name => i = j}

WsModes == {"none", "after", "wide"}

Lead(ws) == IF ws = "wide" THEN <<" ">> ELSE <<>>

Trail(ws) == IF ws = "after" THEN <<" ">>
             ELSE IF ws = "wide" THEN <<" ", " ">> ELSE <<>>

RenderPair(p, ws) ==
    Lead(ws) \o <<QUOTE>> \o p.name \o <<QUOTE, ":">> \o Lead(ws)
    \o (IF p.quoted THEN <<QUOTE>> \o p.text \o <<QUOTE>> ELSE p.text)
    \o Trail(ws)

RECURSIVE RenderPairs(_, _)
RenderPairs(d, ws) ==
    IF d = <<>> THEN <<>>
    ELSE IF Len(d) = 1 THEN RenderPair(d[1], ws)
    ELSE RenderPair(d[1], ws) \o <<",">> \o RenderPairs(Tail(d), ws)

\* the text of the object with the pairs of d, in the order of d
Render(d, ws) ==
    <<"{">> \o (IF d = <<>> THEN Lead(ws) ELSE RenderPairs(d, ws)) \o <<"}">>

\* the text of the objects ds one after the other
RECURSIVE RenderAll(_, _)
RenderAll(ds, ws) ==
    IF ds = <<>> THEN <<>> ELSE Render(ds[1], ws) \o Lead(ws) \o RenderAll(Tail(ds), ws)

\* array elements are written as pairs without a name
Element(text, quoted, val) == Pair(<<>>, text, quoted, val)

IntElements == {Element(<<"1">>, FALSE, 1), Element(<<"-", "7">>, FALSE, 0 - 7),
                Element(<<"0", "1", "0">>, FALSE, 8)}

BoolElements == {Element(<<"t", "r", "u", "e">>, FALSE, 1),
                 Element(<<"f", "a", "l", "s", "e">>, FALSE, 0)}

StringElements == {Element(<<"a", "b">>, TRUE, <<"a", "b", NUL>>),
                   Element(<<"a", "b", "c", "d">>, TRUE, <<"a", "b", "c", "d", NUL>>),
                   Element(<<>>, TRUE, <<NUL>>)}

RealElements == {Element(<<"1", ".", "5">>, FALSE, 150),
                 Element(<<"-", "2", "e", "1">>, FALSE, 0 - 2000),
                 Element(<<"7">>, FALSE, 700)}

\* no element at all between two separators
Missing == Element(<<>>, FALSE, 0)

\* bare words that are not boolean lexemes: one that no lexeme starts, one
\* that starts with a lexeme
WordElements == {Element(<<"n", "o">>, FALSE, 0),
                 Element(<<"t", "r", "u", "e", "x">>, FALSE, 0)}

FieldPairs ==
    {Pair(<<"c", "l">>, <<"A", "B">>, TRUE, 0),
     Pair(<<"c", "l">>, <<"A", "C">>, TRUE, 0),
     Pair(<<"c", "t">>, <<"4", "2">>, FALSE, 42),
     Pair(<<"n", "m">>, <<"a", "b">>, TRUE, <<"a", "b", NUL, NUL>>)}

\* pairs for the members of the parallel arrays with a string column
TextPairs ==
    {Pair(<<"c", "t">>, <<"4", "2">>, FALSE, 42),
     Pair(<<"n", "m">>, <<"a", "b">>, TRUE, <<"a", "b", NUL, NUL>>)}

\* names of JSON_ATTR_MAX - 1 and JSON_ATTR_MAX bytes that the template has
NamePairs ==
    {Pair(Repeat("a", JSON_ATTR_MAX - 1), <<"1">>, FALSE, 1),
     Pair(Repeat("b", JSON_ATTR_MAX), <<"2">>, FALSE, 2)}

ShortPairs ==
    {Pair(<<"s", "h">>, <<"5">>, FALSE, 5),
     Pair(<<"u", "s">>, <<"6">>, FALSE, 6)}

\* values for "x" of template "multi" that neither of its entries is
\* compatible with in the type seek: a negative number, a word
UnmatchedPairs ==
    {Pair(<<"x">>, <<"-", "3">>, FALSE, 0 - 3),
     Pair(<<"x">>, <<"n", "o">>, FALSE, 0)}

\* the escape \u0041 as the whole value of "st": the code point of `A`
UnicodePairs ==
    {Pair(<<"s", "t">>, <<BACKSLASH, "u", "0", "0", "4", "1">>, TRUE,
          <<"A", NUL, NUL, NUL>>)}

\* tokens without a numeric prefix for the integer and uinteger entries
WordPairs ==
    {Pair(<<"c", "t">>, <<"n", "o">>, FALSE, 0),
     Pair(<<"u", "n">>, <<"x">>, FALSE, 0)}

\* unquoted tokens other than `true` and `false` for the boolean entry
OtherTokenPairs ==
    {Pair(<<"f", "l">>, <<"1">>, FALSE, 0),
     Pair(<<"f", "l">>, <<"n", "o">>, FALSE, 0)}

\* values for the entries of template "sparse", and an unknown attribute
SparsePairs ==
    {Pair(<<"c", "t">>, <<"4", "2">>, FALSE, 42),
     Pair(<<"u", "n">>, <<"5">>, FALSE, 5),
     Pair(<<"f", "l">>, <<"f", "a", "l", "s", "e">>, FALSE, 0),
     Pair(<<"s", "t">>, <<"a", "b", "c">>, TRUE, <<"a", "b", "c", NUL>>),
     Pair(<<"z", "z">>, <<"1">>, FALSE, 0)}

\* values quoted the wrong way round for their entry: quoted values of 0, 1
\* and more bytes for number and boolean entries, a token for a string, an
\* enum and a check entry; each with its template
MisquotedPairs ==
    {<<"basic", Pair(<<"c", "t">>, <<>>, TRUE, 0)>>,
     <<"basic", Pair(<<"c", "t">>, <<"4">>, TRUE, 0)>>,
     <<"basic", Pair(<<"c", "t">>, <<"4", "2">>, TRUE, 0)>>,
     <<"basic", Pair(<<"u", "n">>, <<"5">>, TRUE, 0)>>,
     <<"basic", Pair(<<"r", "e">>, <<"1", ".", "5">>, TRUE, 0)>>,
     <<"basic", Pair(<<"f", "l">>, <<"t", "r", "u", "e">>, TRUE, 0)>>,
     <<"basic", Pair(<<"s", "t">>, <<"4", "2">>, FALSE, 0)>>,
     <<"enum", Pair(<<"e", "n">>, <<"O", "N">>, FALSE, 0)>>,
     <<"check", Pair(<<"c", "l">>, <<"A", "B">>, FALSE, 0)>>}

\* a valid quoted pair of the template to stand before a misquoted one
QuotedBefore(attrs) ==
    CASE attrs = "basic" -> Pair(<<"s", "t">>, <<"a", "b", "c">>, TRUE, <<"a", "b", "c", NUL>>)
      [] attrs = "enum" -> Pair(<<"e", "n">>, <<"O", "N">>, TRUE, 1)
      [] attrs = "check" -> Pair(<<"c", "l">>, <<"A", "B">>, TRUE, 0)

\* n two-byte escapes \n
Escapes(n) == [i \in 1..(2 * n) |-> IF i % 2 = 1 THEN BACKSLASH ELSE "n"]

\* a name of JSON_ATTR_MAX + 1 bytes; values of JSON_VAL_MAX + 1 source bytes
\* or more: a token, a plain string, strings of escapes (the shortest of more
\* than JSON_VAL_MAX source bytes, and JSON_VAL_MAX + 1 escapes); each with
\* the template it is parsed against
OverlongPairs ==
    {<<"names", Pair(Repeat("a", JSON_ATTR_MAX + 1), <<"1">>, FALSE, 0)>>,
     <<"basic", Pair(<<"c", "t">>, Repeat("1", JSON_VAL_MAX + 1), FALSE, 0)>>,
     <<"enum", Pair(<<"e", "n">>, Repeat("O", JSON_VAL_MAX + 1), TRUE, 0)>>,
     <<"basic", Pair(<<"s", "t">>, Escapes((JSON_VAL_MAX \div 2) + 1), TRUE, 0)>>,
     <<"basic", Pair(<<"s", "t">>, Escapes(JSON_VAL_MAX + 1), TRUE, 0)>>}

\* sequences of at most n members of S
SeqsOf(S, n) == UNION {[1..k -> S] : k \in 0..n}

\* the blanks an array text has before and after each element
BlanksBefore(ws) == IF ws = "before" THEN <<" ">> ELSE <<>>

BlanksAfter(ws) ==
    CASE ws = "after" -> <<" ">>
      [] ws = "wide" -> <<" ", " ">>
      [] OTHER -> <<>>

RenderElement(p, ws) ==
    BlanksBefore(ws)
    \o (IF p.quoted THEN <<QUOTE>> \o p.text \o <<QUOTE>> ELSE p.text)
    \o BlanksAfter(ws)

RECURSIVE RenderElements(_)
RenderElements(es) ==
    IF es = <<>> THEN <<>>
    ELSE IF Len(es) = 1 THEN es[1]
    ELSE es[1] \o <<",">> \o RenderElements(Tail(es))

\* the text of the array whose elements have the texts es
RenderArray(es) == <<"[">> \o RenderElements(es) \o <<"]">>

\* the texts of the elements of a scenario's array: scalars, or objects
ElementTexts(docs, objects, ws) ==
    IF objects THEN [i \in 1..Len(docs) |-> BlanksBefore(ws) \o Render(docs[i], "none")
                                            \o BlanksAfter(ws)]
    ELSE [i \in 1..Len(docs[1]) |-> RenderElement(docs[1][i], ws)]

IsObjectArray(arr) == Arrays(arr).element_type \in {"t_object", "t_structobject"}

\* what the caller does: fn is the entry point, attrs / arr the template,
\* mode the call pattern, docs the documents and cut the length of the text
\* actually passed (shorter than the full text when truncated)
Scenario(fn, attrs, arr, mode, docs, ws, cut) ==
    [fn |-> fn, attrs |-> attrs, arr |-> arr, mode |-> mode, docs |-> docs,
     ws |-> ws, cut |-> cut]

\* the complete text of the scenario's (first) input
FullText(sc) ==
    IF sc.fn = "array"
    THEN RenderArray(ElementTexts(sc.docs,
                                  IsObjectArray(sc.arr) /\ sc.mode # "scalars",
                                  IF sc.mode = "respaced" THEN "none" ELSE sc.ws))
    ELSE IF sc.mode = "permute" THEN Render(sc.docs[1], sc.ws)
    ELSE IF sc.mode = "nested"
    THEN <<"{", QUOTE, "a", "r", QUOTE, ":">>
         \o RenderArray(ElementTexts(sc.docs, FALSE, sc.ws))
         \o <<",", QUOTE, "c", "t", QUOTE, ":", "4", "2", "}">>
    ELSE RenderAll(sc.docs, sc.ws)

Whole(fn, attrs, arr, mode, docs, ws) ==
    LET sc == Scenario(fn, attrs, arr, mode, docs, ws, 0)
    IN  [sc EXCEPT !.cut = Len(FullText(sc))]

\* one object, parsed by one call
SingleObjects(attrs, P) ==
    {Whole("object", attrs, "NULL", "single", <<d>>, ws) :
        d \in DocsOf(P, MaxPairs), ws \in WsModes}

\* one object, cut short at every position
CutPairs ==
    {p \in BasicPairs : p.text \in {<<"4", "2">>, <<"t", "r", "u", "e">>, <<"a", "b", "c">>}}

CutObjects ==
    UNION {{Scenario("object", "basic", "NULL", "single", <<d>>, "none", cut) :
                cut \in 0..Len(Render(d, "none"))} : d \in DocsOf(CutPairs, MaxPairs)}

\* the object with the escape A, cut short at every position
CutEscapes ==
    UNION {{Scenario("object", "basic", "NULL", "single", <<d>>, "none", cut) :
                cut \in 0..Len(Render(d, "none"))} : d \in DocsOf(UnicodePairs, 1)}

\* an object for template "sparse", cut short at every position
CutSparse ==
    UNION {{Scenario("object", "sparse", "NULL", "single", <<d>>, "none", cut) :
                cut \in 0..Len(Render(d, "none"))} :
           d \in DocsOf({p \in SparsePairs : p.name \in {<<"u", "n">>, <<"s", "t">>}},
                        MaxPairs)}

\* objects one after the other, parsed by one call each
SequencePairs == {p \in BasicPairs : p.text \in {<<"4", "2">>, <<"t", "r", "u", "e">>}}

ObjectSequences ==
    {Whole("object", "basic", "NULL", "sequence", ds, ws) :
        ds \in SeqsOf(DocsOf(SequencePairs, 1), MaxObjects) \ {<<>>},
        ws \in {"none", "wide"}}

\* d2 holds the pairs of d1 in some order
IsPermutation(d1, d2) ==
    /\ Len(d1) = Len(d2)
    /\ {d1[i] : i \in 1..Len(d1)} = {d2[i] : i \in 1..Len(d2)}

\* the same pairs in two orders, parsed by two calls into fresh storage
PermutedObjects ==
    UNION {{Whole("object", "order", "NULL", "permute", <<d1, d2>>, "none") :
                d2 \in {d \in DocsOf(OrderPairs, MaxPairs) : IsPermutation(d1, d)}} :
           d1 \in DocsOf(OrderPairs, MaxPairs)}

ScalarArrays(arr, E) ==
    {Whole("array", "NULL", arr, "single", <<es>>, ws) :
        es \in SeqsOf(E, MaxElements), ws \in {"none", "after"}}

ObjectArrays(arr, P) ==
    {Whole("array", "NULL", arr, "single", ds, ws) :
        ds \in SeqsOf(DocsOf(P, 1), MaxElements), ws \in {"none", "after"}}

\* scalar elements given to an array of another element kind
MixedArrays ==
    UNION {{Whole("array", "NULL", m[1], "scalars", <<es>>, "none") :
                es \in SeqsOf(m[2], MaxElements) \ {<<>>}} :
           m \in {<<"ints", StringElements>>, <<"reals", StringElements>>,
                  <<"strings", IntElements>>, <<"bools", IntElements>>,
                  <<"bools", WordElements>>,
                  <<"structs", IntElements>>, <<"objects", IntElements>>}}

\* the text of a "respaced" scenario with its blanks
RespacedText(sc) == RenderArray(ElementTexts(sc.docs, IsObjectArray(sc.arr), sc.ws))

\* the blanks put into an array text: one after each element, two after
\* each element, one before each element
ArrayWs == {"after", "wide", "before"}

\* an array text without blanks and the same text with blanks, parsed by two
\* calls into fresh storage
RespacedArrays ==
    UNION {{Whole("array", "NULL", m[1], "respaced", <<es>>, ws) :
                es \in SeqsOf(m[2], MaxElements - 1) \ {<<>>}, ws \in ArrayWs} :
           m \in {<<"ints", IntElements>>, <<"reals", RealElements>>,
                  <<"bools", BoolElements>>, <<"strings", StringElements>>}}
    \cup {Whole("array", "NULL", "structs", "respaced", ds, ws) :
              ds \in SeqsOf(DocsOf(FieldPairs, 1), MaxElements - 1) \ {<<>>},
              ws \in ArrayWs}

\* one object with one overlong name or value
OverlongObjects ==
    {Whole("object", m[1], "NULL", "single", <<<<m[2]>>>>, "none") : m \in OverlongPairs}

\* one object with a misquoted value, first or after a valid quoted pair
MisquotedObjects ==
    UNION {{Whole("object", m[1], "NULL", "single", <<d>>, ws) :
                d \in {<<m[2]>>} \cup (IF m[2].name = QuotedBefore(m[1]).name THEN {}
                                       ELSE {<<QuotedBefore(m[1]), m[2]>>}),
                ws \in {"none", "after"}} :
           m \in MisquotedPairs}

NestedArrays ==
    {Whole("object", "outer", "NULL", "nested", <<es>>, ws) :
        es \in SeqsOf(IntElements, MaxElements), ws \in {"none", "after"}}

----------------------------------------------------------------------------
(* Entry points and the caller's steps                                     *)

Scenarios ==
    SingleObjects("basic", BasicPairs \cup UnknownPairs \cup LongPairs)
    \cup SingleObjects("enum", EnumPairs)
    \cup SingleObjects("check", CheckPairs)
    \cup SingleObjects("multi", MultiPairs)
    \cup CutObjects
    \cup ObjectSequences
    \cup PermutedObjects
    \cup ScalarArrays("ints", IntElements)
    \cup ScalarArrays("bools", BoolElements \cup {Missing})
    \cup ScalarArrays("reals", RealElements)
    \cup UNION {ScalarArrays(k, IntElements) : k \in InvalidKinds}
    \cup MixedArrays
    \cup RespacedArrays
    \cup ObjectArrays("textobjects", TextPairs)
    \cup ObjectArrays("bareobjects", TextPairs)
    \cup SingleObjects("names", NamePairs)
    \cup SingleObjects("shorts", ShortPairs)
    \cup OverlongObjects
    \cup MisquotedObjects
    \cup SingleObjects("basic", WordPairs)
    \cup SingleObjects("basic", OtherTokenPairs)
    \cup SingleObjects("sparse", SparsePairs)
    \cup CutSparse
    \cup CutEscapes
    \cup SingleObjects("basic", UnicodePairs)
    \cup SingleObjects("multi", UnmatchedPairs)
    \cup ScalarArrays("strings", StringElements)
    \cup ObjectArrays("structs", FieldPairs)
    \cup ObjectArrays("objects", FieldPairs \ {p \in FieldPairs : p.name = <<"n", "m">>})
    \cup NestedArrays

NoStorage == [mem |-> <<>>, wlog |-> <<>>]

Idle == stack = <<>> /\ ret = <<>>

Init ==
    /\ scen \in Scenarios
    /\ input = SubSeq(FullText(scen), 1, scen.cut)
    /\ stack = <<>>
    /\ ret = <<>>
    /\ mem = <<>>
    /\ wlog = <<>>
    /\ results = <<>>

\* json_read_object(input, attrs, &end), the first call
json_read_object ==
    /\ Idle /\ results = <<>> /\ scen.fn = "object"
    /\ EnterObject(1, scen.attrs, "NULL", 0, <<>>, [mem |-> mem, wlog |-> wlog])
    /\ UNCHANGED <<input, results, scen>>

\* json_read_array(input, arr, &end)
json_read_array ==
    /\ Idle /\ results = <<>> /\ scen.fn = "array"
    /\ EnterArray(1, scen.arr, <<>>)
    /\ UNCHANGED <<input, results, scen>>

\* the entry point returns: the caller has the status, the end-cursor and
\* its storage as the parse left it
call_returns ==
    /\ stack = <<>> /\ ret # <<>>
    /\ results' = Append(results, [status |-> ret[1].status, end |-> ret[1].end,
                                   mem |-> mem])
    /\ ret' = <<>>
    /\ UNCHANGED <<input, stack, mem, wlog, scen>>

\* the caller parses the next object of the text from the end-cursor
read_next_object ==
    /\ Idle /\ results # <<>> /\ scen.mode = "sequence"
    /\ LET last == results[Len(results)]
       IN  /\ last.status = 0
           /\ At(input, last.end) # NUL
           /\ EnterObject(last.end, scen.attrs, "NULL", 0, <<>>, [mem |-> mem, wlog |-> wlog])
    /\ UNCHANGED <<input, results, scen>>

\* the caller parses the reordered text into fresh storage
read_permuted_object ==
    /\ Idle /\ Len(results) = 1 /\ scen.mode = "permute"
    /\ input' = Render(scen.docs[2], scen.ws)
    /\ EnterObject(1, scen.attrs, "NULL", 0, <<>>, NoStorage)
    /\ UNCHANGED <<results, scen>>

\* the caller parses the text with blanks into fresh storage
read_respaced_array ==
    /\ Idle /\ Len(results) = 1 /\ scen.mode = "respaced"
    /\ input' = RespacedText(scen)
    /\ EnterArrayOn(RespacedText(scen), 1, scen.arr, <<>>, NoStorage)
    /\ UNCHANGED <<results, scen>>

Next ==
    \/ json_read_object
    \/ json_read_array
    \/ call_returns
    \/ read_next_object
    \/ read_permuted_object
    \/ read_respaced_array
    \/ init
    \/ await_attr
    \/ in_attr
    \/ await_value
    \/ await_value_return
    \/ in_val_string
    \/ in_escape
    \/ in_val_token
    \/ post_val
    \/ post_array
    \/ good_parse
    \/ scan_past_terminator
    \/ array_element
    \/ array_element_return

Spec == Init /\ [][Next]_vars

----------------------------------------------------------------------------
(* json_error_string: the message table and the caller that asks for a     *)
(* message                                                                 *)

\* const char *errors[]: the initializers in order, index 0 first
errors ==
    <<"unknown error while parsing JSON",
      "non-whitespace when expecting object start",
      "non-whitespace when expecting attribute start",
      "unknown attribute name",
      "attribute name too long",
      "saw [ when not expecting array",
      "array element specified, but no [",
      "string value too long",
      "token value too long",
      "garbage while expecting comma or } or ]",
      "didn't find expected array start",
      "error while parsing object array",
      "too many array elements",
      "garbage while expecting array comma",
      "unsupported array element type",
      "error while string parsing",
      "check attribute not matched",
      "can't support strings in parallel arrays",
      "invalid enumerated value",
      "saw quoted value when expecting nonstring",
      "didn't see quoted value when expecting string",
      "other data conversion error",
      "unexpected null value or attribute pointer">>

\* sizeof(errors) / sizeof(errors[0])
ErrorsSize == Len(errors)

\* the index json_error_string reads in errors[] for err (0-based, as in C)
ErrorIndex(err) == IF err <= 0 \/ err >= ErrorsSize THEN 0 ELSE err

json_error_string(err) ==
    [index |-> ErrorIndex(err),
     text |-> IF ErrorIndex(err) < ErrorsSize THEN errors[ErrorIndex(err) + 1]
              ELSE "indeterminate"]

\* the values a caller asks a message for: every status, and values on both
\* sides of the defined range
ErrBelow == 40
ErrAbove == 63

StringInit ==
    /\ scen \in {[fn |-> "error_string", err |-> e] : e \in (0 - ErrBelow)..ErrAbove}
    /\ input = <<>>
    /\ stack = <<>>
    /\ ret = <<>>
    /\ mem = <<>>
    /\ wlog = <<>>
    /\ results = <<>>

\* json_error_string(err), called once
call_json_error_string ==
    /\ scen.fn = "error_string" /\ results = <<>>
    /\ results' = <<json_error_string(scen.err)>>
    /\ UNCHANGED <<input, stack, ret, mem, wlog, scen>>

StringNext == call_json_error_string

StringSpec == StringInit /\ [][StringNext]_vars

----------------------------------------------------------------------------
(* Properties                                                              *)

\* the first call has returned and the caller holds its result
Done == Idle /\ results # <<>>

First == results[1]

Last == results[Len(results)]

\* the scenario is one whole object text parsed by one call against attrs
WholeObject(attrs) ==
    /\ scen.fn = "object" /\ scen.mode = "single" /\ scen.attrs = attrs
    /\ scen.cut = Len(FullText(scen))

Doc == scen.docs[1]

\* storage m holds value v in the cell at address a
Holds(m, a, v) == a \in DOMAIN m /\ m[a] = v

\* storage m holds the bytes bs from address a on
HoldsBytes(m, a, bs) == \A i \in 1..Len(bs) : Holds(m, a + i - 1, bs[i])

\* the pairs of d that name entry e
PairsFor(d, e) == {i \in 1..Len(d) : d[i].name = e.attribute}

\* the destination of top-level entry e holds what document d gives for it,
\* or the declared default (the empty string) when d does not name it
HoldsExpected(m, e, d) ==
    LET is == PairsFor(d, e)
    IN  IF is = {}
        THEN Holds(m, e.addr, IF e.type = "t_string" THEN NUL ELSE e.dflt)
        ELSE IF e.type = "t_string" THEN HoldsBytes(m, e.addr, d[MinOf(is)].val)
        ELSE Holds(m, e.addr, d[MinOf(is)].val)

AllValid(d, P) == \A i \in 1..Len(d) : d[i] \in P

FirstUnknown(d) ==
    MinOf({i \in 1..Len(d) : d[i] \in UnknownPairs})

\* C2: when the object names an attribute that matches no template entry
\* (and the text before it is valid), json_read_object returns
\* JSON_ERR_BADATTR; the attributes committed before the unknown name hold
\* their parsed values and every other destination holds its default.
C2_UnknownAttribute ==
    (/\ Done /\ WholeObject("basic")
     /\ \E i \in 1..Len(Doc) : Doc[i] \in UnknownPairs
     /\ AllValid(SubSeq(Doc, 1, FirstUnknown(Doc) - 1), BasicPairs)) =>
        /\ First.status = JSON_ERR_BADATTR
        /\ \A i \in 1..Len(Schema("basic")) :
               HoldsExpected(First.mem, Schema("basic")[i],
                             SubSeq(Doc, 1, FirstUnknown(Doc) - 1))

C2_Witness ==
    /\ Done /\ WholeObject("basic")
    /\ Len(Doc) = 2 /\ Doc[1].text = <<"4", "2">> /\ Doc[2] \in UnknownPairs
    /\ First.status = JSON_ERR_BADATTR
    /\ Holds(First.mem, 16, 42)

\* C3: two texts holding the same attribute/value pairs in different orders
\* are accepted alike, and leave the same destination values.
C3_OrderInsensitive ==
    (Idle /\ scen.mode = "permute" /\ Len(results) = 2) =>
        (results[1].status = 0 =>
            /\ results[2].status = 0
            /\ results[2].mem = results[1].mem)

\* C4: json_read_object returns 0 only if the text held an opening `{` and
\* the closing `}` was consumed: never for an empty text, white space only,
\* or a text cut anywhere before the closing `}`.
C4_SuccessNeedsClosedObject ==
    (Done /\ scen.fn = "object" /\ scen.mode = "single" /\ First.status = 0) =>
        /\ scen.cut = Len(FullText(scen))
        /\ \E i, j \in 1..Len(input) :
               i < j /\ j < First.end /\ input[i] = "{" /\ input[j] = "}"

\* the pairs of d that give the check attribute "cl"
CheckPairsOf(d) == {i \in 1..Len(d) : d[i].name = <<"c", "l">>}

\* d gives "cl" a value that differs from the declared literal "AB"
Mismatch(d) == \E i \in CheckPairsOf(d) : d[i].text # <<"A", "B">>

\* C5: for a check entry, at top level and inside an array element, a quoted
\* value equal to the declared literal lets the parse succeed and a quoted
\* value that differs from it (same length, shorter or longer) makes the
\* call return JSON_ERR_CHECKFAIL, wherever the attribute stands.
C5_CheckEnforced ==
    /\ (Done /\ WholeObject("check") /\ CheckPairsOf(Doc) # {}) =>
           First.status = IF Mismatch(Doc) THEN JSON_ERR_CHECKFAIL ELSE 0
    /\ (Done /\ scen.fn = "array" /\ scen.arr \in {"structs", "objects"}
        /\ Len(scen.docs) \in 1..Arrays(scen.arr).maxlen
        /\ \A k \in 1..Len(scen.docs) : CheckPairsOf(scen.docs[k]) # {}) =>
           First.status = IF \E k \in 1..Len(scen.docs) : Mismatch(scen.docs[k])
                          THEN JSON_ERR_CHECKFAIL ELSE 0

\* the position in d of the pair that gives the enumerated attribute "en"
EnumPairOf(d) == MinOf({i \in 1..Len(d) : d[i].name = <<"e", "n">>})

\* C6: for an integer entry with an enum map, a quoted value that names a
\* map entry gives status 0 and the mapped integer in the destination,
\* whatever well-formed text follows the closing quote (`,`, `}`, or white
\* space before them); a quoted value naming no entry gives JSON_ERR_BADENUM.
C6_EnumMapped ==
    (Done /\ WholeObject("enum") /\ \E i \in 1..Len(Doc) : Doc[i].name = <<"e", "n">>) =>
        LET p == Doc[EnumPairOf(Doc)]
        IN  IF \E k \in 1..Len(EnumMap[1]) : EnumMap[1][k].name = p.text
            THEN First.status = 0 /\ Holds(First.mem, Schema("enum")[1].addr, p.val)
            ELSE First.status = JSON_ERR_BADENUM

\* C7: with adjacent entries x:integer then x:real, a value that starts with
\* a digit and has no `.` is written to the integer destination and leaves the
\* real one at its default; one that has a `.` is written to the real
\* destination and leaves the integer one at its default.
C7_TypeReconciliation ==
    (Done /\ WholeObject("multi") /\ Len(Doc) = 1 /\ isdigit(Doc[1].text[1])) =>
        LET xi == Schema("multi")[1]
            xr == Schema("multi")[2]
        IN  /\ First.status = 0
            /\ IF strchr(Doc[1].text, ".")
               THEN Holds(First.mem, xr.addr, Doc[1].val)
                    /\ Holds(First.mem, xi.addr, xi.dflt)
               ELSE Holds(First.mem, xi.addr, Doc[1].val)
                    /\ Holds(First.mem, xr.addr, xr.dflt)

C7_Witness ==
    /\ Done /\ WholeObject("multi") /\ Len(Doc) = 1
    /\ Doc[1].text = <<"1", ".", "5">> /\ scen.ws = "after"
    /\ First.status = 0
    /\ Holds(First.mem, 24, 150)

\* the caller of a concatenated text has no further call to make
SequenceEnded ==
    /\ Idle /\ results # <<>> /\ scen.mode = "sequence"
    /\ (Last.status # 0 \/ At(input, Last.end) = NUL)

\* C8: for a text that concatenates objects each accepted on its own (empty
\* objects included), calling json_read_object again and again from the
\* end-cursor of the call before returns 0 for each object in turn, commits
\* only that object's values in that call, and leaves the last end-cursor at
\* the terminating NUL.
C8_SequenceParsed ==
    SequenceEnded =>
        /\ Len(results) = Len(scen.docs)
        /\ \A k \in 1..Len(results) :
               /\ results[k].status = 0
               /\ \A i \in 1..Len(Schema("basic")) :
                      HoldsExpected(results[k].mem, Schema("basic")[i], scen.docs[k])
        /\ Last.end = Len(input) + 1

\* C9: when json_read_array returns 0, the end-cursor points just past the
\* closing `]` of the array, not at the `]` itself.
C9_EndPastBracket ==
    (Done /\ scen.fn = "array" /\ First.status = 0) =>
        /\ At(input, First.end - 1) = "]"
        /\ First.end = Len(input) + 1

\* C10: for a string entry of capacity len, a quoted value of more than
\* len - 1 bytes makes json_read_object return JSON_ERR_STRLONG, and after
\* every successful parse the buffer holds a NUL within its first len bytes.
C10_StringCapacity ==
    (Done /\ WholeObject("basic")) =>
        LET st == Schema("basic")[5]
        IN  /\ \A i \in 1..Len(Doc) :
                   (/\ Doc[i].name = st.attribute
                    /\ Len(Doc[i].text) > st.len - 1
                    /\ AllValid(SubSeq(Doc, 1, i - 1), BasicPairs))
                   => First.status = JSON_ERR_STRLONG
            /\ First.status = 0 =>
                   \E k \in 0..(st.len - 1) : Holds(First.mem, st.addr + k, NUL)

\* bytes of one cell of each scalar kind
SizeOfKind(type) ==
    CASE type \in {"t_integer", "t_uinteger"} -> SizeofInt
      [] type \in {"t_real", "t_time"} -> SizeofDouble
      [] type \in {"t_short", "t_ushort"} -> 2
      [] OTHER -> 1

\* the cells the caller declared for entry e of a template read for one of
\* slots element slots: at its address (top level, slots = 1), in its column
\* (parallel arrays) or, with structs set, in struct i at base + i * stride
DeclaredFor(e, slots, structs, base, stride) ==
    IF e.type \in {"t_check", "t_ignore", "t_array"} THEN {}
    ELSE IF e.type = "t_string"
    THEN IF structs
         THEN {base + i * stride + e.addr + k : i \in 0..(slots - 1), k \in 0..(e.len - 1)}
         ELSE {e.addr + k : k \in 0..(e.len - 1)}
    ELSE IF structs
    THEN {base + i * stride + e.addr : i \in 0..(slots - 1)}
    ELSE {e.addr + i * SizeOfKind(e.type) : i \in 0..(slots - 1)}

DeclaredInTemplate(attrs, slots, structs, base, stride) ==
    UNION {DeclaredFor(Schema(attrs)[i], slots, structs, base, stride) :
               i \in 1..Len(Schema(attrs))}

\* the cells array template arr declares: the count, and the slots below maxlen
DeclaredInArray(arr) ==
    LET a == Arrays(arr)
    IN  {a.count}
        \cup (CASE a.element_type = "t_string" ->
                     {a.ptrs + i * SizeofPtr : i \in 0..(a.maxlen - 1)}
                     \cup {a.store + k : k \in 0..(a.storelen - 1)}
                [] a.element_type = "t_structobject" ->
                     DeclaredInTemplate(a.subtype, a.maxlen, TRUE, a.base, a.stride)
                [] a.element_type = "t_object" ->
                     DeclaredInTemplate(a.subtype, a.maxlen, FALSE, 0, 0)
                [] OTHER ->
                     {a.store + i * SizeOfKind(a.element_type) : i \in 0..(a.maxlen - 1)})

\* every cell the scenario's templates declare
Declared ==
    IF scen.fn = "array" THEN DeclaredInArray(scen.arr)
    ELSE DeclaredInTemplate(scen.attrs, 1, FALSE, 0, 0)
         \cup UNION {DeclaredInArray(Schema(scen.attrs)[i].array) :
                        i \in {j \in 1..Len(Schema(scen.attrs)) :
                                   Schema(scen.attrs)[j].type = "t_array"}}

\* C11: every write json_read_object or json_read_array makes to caller
\* storage lands inside a declared destination: a scalar or pointer slot of
\* index below maxlen, a string buffer within its len bytes, the string store
\* within storelen, a member of a struct of index below maxlen.
C11_WritesInBounds ==
    \A i \in 1..Len(wlog) : wlog[i] \in Declared

\* the scenario is one whole object text of one attribute/value pair
OnePair ==
    /\ scen.fn = "object" /\ scen.mode = "single"
    /\ scen.cut = Len(FullText(scen)) /\ Len(Doc) = 1

\* C12: an attribute name longer than JSON_ATTR_MAX (31) bytes makes
\* json_read_object return JSON_ERR_ATTRLEN, and a scalar value longer than
\* JSON_VAL_MAX (512) source bytes, a token or a quoted string, with or
\* without backslash escapes, makes it return JSON_ERR_TOKLONG or
\* JSON_ERR_STRLONG.
C12_LengthLimits ==
    Done /\ OnePair =>
        /\ Len(Doc[1].name) > JSON_ATTR_MAX => First.status = JSON_ERR_ATTRLEN
        /\ Len(Doc[1].name) <= JSON_ATTR_MAX /\ Len(Doc[1].text) > JSON_VAL_MAX =>
               First.status \in {JSON_ERR_TOKLONG, JSON_ERR_STRLONG}

\* C13: a name of 1 to JSON_ATTR_MAX (31) bytes that equals an entry's name is
\* collected in full and matched, so a one-pair object naming it with a valid
\* value returns 0 with the value stored; JSON_ERR_ATTRLEN is returned only
\* for names of more than JSON_ATTR_MAX bytes.
C13_NamesUpToAttrMax ==
    Done /\ OnePair /\ scen.attrs = "names" =>
        /\ Len(Doc[1].name) <= JSON_ATTR_MAX =>
               /\ First.status = 0
               /\ \A i \in 1..Len(Schema("names")) :
                      HoldsExpected(First.mem, Schema("names")[i], Doc)
        /\ First.status = JSON_ERR_ATTRLEN => Len(Doc[1].name) > JSON_ATTR_MAX

\* the scenario is one whole array text parsed by one call of json_read_array
WholeArray ==
    /\ scen.fn = "array" /\ scen.cut = Len(FullText(scen))

ArrayOfObjects == Arrays(scen.arr).element_type \in {"t_object", "t_structobject"}

\* the elements of the array text in input order: objects, or scalars
Elems == IF ArrayOfObjects /\ scen.mode = "single" THEN scen.docs ELSE scen.docs[1]

\* the bytes the first n strings of es take in the string store
RECURSIVE StoreUsed(_, _)
StoreUsed(es, n) == IF n = 0 THEN 0 ELSE StoreUsed(es, n - 1) + Len(es[n].val)

\* member e of element i of array template a, as an entry at its own address
MemberAt(a, e, i) ==
    IF a.element_type = "t_structobject"
    THEN [e EXCEPT !.addr = a.base + i * a.stride + e.addr]
    ELSE [e EXCEPT !.addr = e.addr + i * SizeOfKind(e.type)]

\* storage m holds element el of the array in slot i of template a
SlotHolds(m, a, es, i) ==
    CASE a.element_type = "t_string" ->
             /\ Holds(m, a.ptrs + i * SizeofPtr, a.store + StoreUsed(es, i))
             /\ HoldsBytes(m, a.store + StoreUsed(es, i), es[i + 1].val)
      [] a.element_type \in {"t_object", "t_structobject"} ->
             \A k \in 1..Len(Schema(a.subtype)) :
                 Schema(a.subtype)[k].type # "t_check" =>
                     HoldsExpected(m, MemberAt(a, Schema(a.subtype)[k], i), es[i + 1])
      [] OTHER -> Holds(m, a.store + i * SizeOfKind(a.element_type), es[i + 1].val)

\* the array text is a list of elements of the declared kind that the
\* template can take: no element missing, the strings within the string
\* store, each object naming members of the template with a check value
\* equal to the declared one
TakesElements(a, es) ==
    /\ scen.mode = "single"
    /\ ~ArrayOfObjects => \A i \in 1..Len(es) : es[i].quoted \/ es[i].text # <<>>
    /\ a.element_type = "t_string" =>
           \A i \in 1..Len(es) :
               i <= a.maxlen => StoreUsed(es, i) <= a.storelen
    /\ ArrayOfObjects =>
           \A i \in 1..Len(es) : \A k \in 1..Len(es[i]) :
               \E j \in 1..Len(Schema(a.subtype)) :
                   /\ Schema(a.subtype)[j].attribute = es[i][k].name
                   /\ Schema(a.subtype)[j].type = "t_check" =>
                          es[i][k].text = Schema(a.subtype)[j].dflt

ValidKinds == {"ints", "reals", "bools", "strings", "structs", "objects"}

\* C14: an array text with more elements than maxlen makes json_read_array
\* return JSON_ERR_SUBTOOLONG; the first maxlen elements are in slots
\* 0..maxlen-1 in input order and no slot of index maxlen or more is written.
C14_TooManyElements ==
    Done /\ WholeArray /\ scen.arr \in ValidKinds
         /\ TakesElements(Arrays(scen.arr), Elems)
         /\ Len(Elems) > Arrays(scen.arr).maxlen =>
        /\ First.status = JSON_ERR_SUBTOOLONG
        /\ \A i \in 0..(Arrays(scen.arr).maxlen - 1) :
               SlotHolds(First.mem, Arrays(scen.arr), Elems, i)
        /\ \A i \in 1..Len(wlog) : wlog[i] \in DeclaredInArray(scen.arr)

\* the number of elements the array text holds: every object, and every
\* scalar that is not an empty place between two separators
Present(es) ==
    IF ArrayOfObjects THEN Len(es)
    ELSE Cardinality({i \in 1..Len(es) : es[i].quoted \/ es[i].text # <<>>})

\* C15: whenever json_read_array returns 0 the count-output is the number of
\* elements the array text holds and slots 0..count-1 hold them in input
\* order, for integer, real, boolean, string, object and structobject
\* arrays; a text with a missing element, such as `[,]`, is not counted as
\* holding elements it does not hold.
C15_CountIsElements ==
    Done /\ WholeArray /\ scen.mode = "single" /\ scen.arr \in ValidKinds
         /\ First.status = 0 =>
        /\ Holds(First.mem, Arrays(scen.arr).count, Present(Elems))
        /\ Present(Elems) = Len(Elems) =>
               \A i \in 0..(Len(Elems) - 1) :
                   SlotHolds(First.mem, Arrays(scen.arr), Elems, i)

\* C16: an array text in which an element's syntactic kind differs from the
\* declared element kind (a number in a string or boolean array, a quoted
\* string in an integer or real array, a scalar in an object array) makes
\* json_read_array return JSON_ERR_SUBTYPE or JSON_ERR_BADNUM.
C16_KindMismatch ==
    Done /\ WholeArray /\ scen.mode = "scalars" =>
        First.status \in {JSON_ERR_SUBTYPE, JSON_ERR_BADNUM}

\* C17: for a structobject array of base B, stride S and maxlen M, an array
\* text of n <= M objects returns 0 and sets count to n; member f of element
\* i (parsed value or default) is at byte address B + i*S + offset(f) for
\* every i < n, and no byte of a struct of index n or more is written.
C17_StructArray ==
    Done /\ WholeArray /\ scen.arr = "structs"
         /\ TakesElements(Arrays("structs"), Elems)
         /\ Len(Elems) <= Arrays("structs").maxlen =>
        /\ First.status = 0
        /\ Holds(First.mem, Arrays("structs").count, Len(Elems))
        /\ \A i \in 0..(Len(Elems) - 1) :
               SlotHolds(First.mem, Arrays("structs"), Elems, i)
        /\ \A k \in 1..Len(wlog) :
               \/ wlog[k] = Arrays("structs").count
               \/ wlog[k] < Arrays("structs").base
                                + Len(Elems) * Arrays("structs").stride

\* the scenario parses one array text against a parallel-array template that
\* has a string column
TextArray ==
    /\ scen.fn = "array" /\ scen.mode = "single"
    /\ scen.arr \in {"textobjects", "bareobjects"}

\* the string entry of the template of the array's elements
TextColumn == Schema(Arrays(scen.arr).subtype)[2]

NamesText(d) == d # <<>> /\ d[1].name = TextColumn.attribute

\* writes so far into the buffer of the string column
TextWrites ==
    Cardinality({k \in 1..Len(wlog) :
                     wlog[k] \in TextColumn.addr..(TextColumn.addr + TextColumn.len - 1)})

\* the writes element 0 makes into that buffer: the default's terminator
\* unless suppressed, and the len bytes of a value it gives
FirstElementWrites ==
    (IF TextColumn.nodefault THEN 0 ELSE 1)
    + (IF Elems # <<>> /\ NamesText(Elems[1]) THEN TextColumn.len ELSE 0)

\* the parse gets to the string entry for element 1: element 0 is a closed
\* non-empty object, and the entry is primed or element 1 names it
TextReached ==
    /\ Len(Elems) >= 2 /\ Elems[1] # <<>>
    /\ ~TextColumn.nodefault \/ NamesText(Elems[2])

\* C18: in an array of element kind object (parallel arrays) a string entry
\* reached for an element of index above 0 makes the parse return
\* JSON_ERR_NOPARSTR, at default priming or, with default-suppression set,
\* when the value is committed; the string buffer is never written on behalf
\* of an element of index above 0.
C18_ParallelString ==
    TextArray =>
        /\ TextWrites <= FirstElementWrites
        /\ Done /\ WholeArray /\ TextReached => First.status = JSON_ERR_NOPARSTR

C18_Witness ==
    /\ Done /\ WholeArray /\ TextArray /\ scen.arr = "bareobjects"
    /\ Len(Elems) = 2 /\ NamesText(Elems[1]) /\ NamesText(Elems[2])
    /\ First.status = JSON_ERR_NOPARSTR
    /\ TextWrites = TextColumn.len

\* C19: json_read_array called with an array template whose element kind is
\* time, character, array, check or ignore returns JSON_ERR_SUBTYPE for
\* every input that starts an array, and writes nothing to caller storage.
C19_InvalidElementKind ==
    Done /\ WholeArray /\ scen.arr \in InvalidKinds =>
        First.status = JSON_ERR_SUBTYPE /\ wlog = <<>>

\* C20: an entry of kind short or ushort behaves like the other scalar
\* kinds: priming writes its default to its 16-bit destination, and when the
\* attribute is in the input its converted value is written there.
C20_ShortsStored ==
    Done /\ WholeObject("shorts") =>
        /\ First.status = 0
        /\ \A i \in 1..Len(Schema("shorts")) :
               HoldsExpected(First.mem, Schema("shorts")[i], Doc)

\* the comment the header gives the status code, with its abbreviations
\* written out (WS: whitespace, attrib: attribute); QNONSTRING and NONQSTRING
\* share the value 19
HeaderComments(code) ==
    CASE code = JSON_ERR_OBSTART -> {"non-whitespace when expecting object start"}
      [] code = JSON_ERR_ATTRSTART -> {"non-whitespace when expecting attribute start"}
      [] code = JSON_ERR_BADATTR -> {"unknown attribute name"}
      [] code = JSON_ERR_ATTRLEN -> {"attribute name too long"}
      [] code = JSON_ERR_NOARRAY -> {"saw [ when not expecting array"}
      [] code = JSON_ERR_NOBRAK -> {"array element specified, but no ["}
      [] code = JSON_ERR_STRLONG -> {"string value too long"}
      [] code = JSON_ERR_TOKLONG -> {"token value too long"}
      [] code = JSON_ERR_BADTRAIL -> {"garbage while expecting comma or } or ]"}
      [] code = JSON_ERR_ARRAYSTART -> {"didn't find expected array start"}
      [] code = JSON_ERR_OBJARR -> {"error while parsing object array"}
      [] code = JSON_ERR_SUBTOOLONG -> {"too many array elements"}
      [] code = JSON_ERR_BADSUBTRAIL -> {"garbage while expecting array comma"}
      [] code = JSON_ERR_SUBTYPE -> {"unsupported array element type"}
      [] code = JSON_ERR_BADSTRING -> {"error while string parsing"}
      [] code = JSON_ERR_CHECKFAIL -> {"check attribute not matched"}
      [] code = JSON_ERR_NOPARSTR -> {"can't support strings in parallel arrays"}
      [] code = JSON_ERR_BADENUM -> {"invalid enumerated value"}
      [] code = JSON_ERR_QNONSTRING -> {"saw quoted value when expecting nonstring",
                                        "didn't see quoted value when expecting string"}
      [] code = JSON_ERR_MISC -> {"other data conversion error"}
      [] code = JSON_ERR_BADNUM -> {"error while parsing a numerical argument"}
      [] code = JSON_ERR_NULLPTR -> {"unexpected null value or attribute pointer"}
      [] code = JSON_ERR_NOCURLY -> {"object element specified, but no {"}

\* C21: for every status code of the header (1 to 23) json_error_string
\* returns the message that describes the code's condition as the header
\* comment gives it; for 0 and every value outside the defined range it
\* returns the generic unknown-error text; it never indexes outside the
\* message table.
C21_ErrorStrings ==
    scen.fn = "error_string" /\ results # <<>> =>
        /\ First.index \in 0..(ErrorsSize - 1)
        /\ IF scen.err \in JSON_ERR_OBSTART..JSON_ERR_NOCURLY
           THEN First.text \in HeaderComments(scen.err)
           ELSE First.text = errors[1]

\* C23: when the object reader meets `}` in state await_attr (the empty
\* object `{}`) it stops there: the call returns 0 with the end-cursor just
\* past that `}` and the white space after it, whatever bytes follow, and
\* only the defaults are stored; an empty object is accepted as an element
\* of an object array that has further elements.
C23_EmptyObjectStops ==
    /\ Done /\ scen.fn = "object" /\ scen.mode = "sequence"
            /\ scen.cut = Len(FullText(scen)) /\ scen.docs[1] = <<>> =>
           /\ First.status = 0
           /\ First.end = Len(Render(<<>>, scen.ws)) + Len(Lead(scen.ws)) + 1
           /\ \A i \in 1..Len(Schema(scen.attrs)) :
                  HoldsExpected(First.mem, Schema(scen.attrs)[i], <<>>)
    /\ Done /\ WholeArray /\ scen.arr \in {"structs", "objects"}
            /\ TakesElements(Arrays(scen.arr), Elems)
            /\ Len(Elems) \in 2..Arrays(scen.arr).maxlen
            /\ Elems[1] = <<>> =>
           First.status = 0

\* the number of stores so far to the cell at address a
WritesAt(a) == Cardinality({k \in 1..Len(wlog) : wlog[k] = a})

\* C24: during one successful json_read_object call each destination is
\* written at most once with its default and at most once with a parsed
\* value for each attribute/value pair that names it, whatever the white
\* space between a value and the following `,` or `}`: the conversion and
\* commit of post_val runs exactly once per pair.
C24_CommitOncePerPair ==
    Done /\ WholeObject("basic") /\ First.status = 0 =>
        \A i \in 1..Len(Schema("basic")) :
            WritesAt(Schema("basic")[i].addr)
                <= 1 + Cardinality(PairsFor(Doc, Schema("basic")[i]))

\* the scenario is one whole object whose last pair is misquoted
Misquoted ==
    /\ scen.fn = "object" /\ scen.mode = "single"
    /\ scen.cut = Len(FullText(scen)) /\ Doc # <<>>
    /\ <<scen.attrs, Doc[Len(Doc)]>> \in MisquotedPairs

\* C25: every quoted value, of any length and at any position in the
\* object, given for an integer, uinteger, real or boolean entry without an
\* enum map makes json_read_object return JSON_ERR_QNONSTRING; every
\* unquoted value given for a string or check entry or an entry with an enum
\* map makes it return JSON_ERR_NONQSTRING.
C25_QuotingChecked ==
    Done /\ Misquoted =>
        First.status = (IF Doc[Len(Doc)].quoted THEN JSON_ERR_QNONSTRING
                        ELSE JSON_ERR_NONQSTRING)

\* C26: in type reconciliation, when no entry of the run of adjacent entries
\* sharing the attribute's name has a kind compatible with the value (a
\* negative number, a token that is neither a number nor true/false), the
\* entry used for the legality checks and the commit is the first entry of
\* the name: the value is converted to its destination and the later entry
\* keeps its default.
C26_SeekKeepsFirst ==
    Done /\ WholeObject("multi") /\ Len(Doc) = 1 /\ Doc[1] \in UnmatchedPairs =>
        /\ First.status = 0
        /\ Holds(First.mem, Schema("multi")[1].addr, Doc[1].val)
        /\ Holds(First.mem, Schema("multi")[2].addr, Schema("multi")[2].dflt)

\* C27: inside a quoted value the escape \u followed by four hex digits
\* consumes exactly those four digits and appends exactly one byte, the low
\* 8 bits of the code point; none of the four digits is appended as an
\* ordinary character.  So `{"st":"\u0041"}` stores the string `A`.
C27_UnicodeEscape ==
    Done /\ WholeObject("basic") /\ Len(Doc) = 1 /\ Doc[1] \in UnicodePairs =>
        /\ First.status = 0
        /\ HoldsBytes(First.mem, Schema("basic")[5].addr, Doc[1].val)

\* C28: at every step of json_read_object, for every input, the write
\* position in the attribute-name buffer stays within its JSON_ATTR_MAX + 1
\* (32) bytes and the write position in the value buffer within its
\* JSON_VAL_MAX + 1 (513) bytes, quoted values made of backslash escapes and
\* the terminator written at the closing quote included.
C28_ScratchBuffersBounded ==
    \A i \in 1..Len(stack) :
        /\ Len(stack[i].attrbuf) <= JSON_ATTR_MAX + 1
        /\ stack[i].pattr <= JSON_ATTR_MAX + 1
        /\ Len(stack[i].valbuf) <= JSON_VAL_MAX + 1
        /\ stack[i].pval <= JSON_VAL_MAX + 1

\* C29: json_read_object and json_read_array never read an input byte at a
\* position after the input's terminating NUL, for inputs that end inside a
\* \u escape, inside a quoted value or inside an array string element too;
\* the scan cursor never moves past the NUL.
C29_NoReadPastTerminator ==
    /\ \A i \in 1..Len(stack) : stack[i].cp <= Len(input) + 1
    /\ Running("object") /\ Head(stack).state = "in_escape"
           /\ At(input, Head(stack).cp) = "u" =>
           \A p \in EscapeTests(Head(stack).cp) : p <= Len(input) + 1

\* C30: for an integer or uinteger value whose text has no numeric prefix
\* (empty conversion) the object reader (attribute value) and the array
\* reader (array element) both return JSON_ERR_BADNUM and store no number
\* for that value.
C30_EmptyConversion ==
    /\ Done /\ WholeObject("basic") /\ Len(Doc) = 1 /\ Doc[1] \in WordPairs =>
           /\ First.status = JSON_ERR_BADNUM
           /\ \A i \in 1..Len(Schema("basic")) : WritesAt(Schema("basic")[i].addr) <= 1
    /\ Done /\ WholeArray /\ scen.arr = "ints" /\ scen.mode = "scalars" =>
           /\ First.status = JSON_ERR_BADNUM
           /\ WritesAt(Arrays("ints").store) = 0

\* the two boolean lexemes
BooleanLexemes == {<<"t", "r", "u", "e">>, <<"f", "a", "l", "s", "e">>}

\* C31: a boolean destination is written only from a value whose text is
\* exactly `true` or exactly `false`: any other unquoted token for a boolean
\* attribute of an object or for a boolean array element gives a non-zero
\* status, is not stored and is not counted as an element.
C31_BooleanLexeme ==
    /\ Done /\ WholeObject("basic") /\ Len(Doc) = 1 /\ Doc[1] \in OtherTokenPairs =>
           /\ First.status # 0
           /\ WritesAt(Schema("basic")[4].addr) <= 1
    /\ Done /\ WholeArray /\ scen.arr = "bools" /\ scen.mode = "scalars" =>
           /\ First.status # 0
           /\ WritesAt(Arrays("bools").count) = 0
           /\ \A i \in 1..Len(Elems) :
                  Elems[i].text \notin BooleanLexemes =>
                      WritesAt(Arrays("bools").store + (i - 1) * SizeofBool) = 0

\* the caller has parsed both texts of a "respaced" scenario
Respaced == Idle /\ scen.mode = "respaced" /\ Len(results) = 2

\* C32: the array reader accepts any run of blanks before each element and
\* between an element and the following `,` or `]`: for integer, real,
\* boolean, string and structobject arrays, the text with blanks put between
\* its tokens gives the same status, element values and count as the text
\* without them.
C32_BlanksBetweenTokens ==
    Respaced =>
        /\ results[2].status = results[1].status
        /\ results[2].mem = results[1].mem

\* a status returned by json_read_array is on its way to the caller: to the
\* program for a top-level array, to await_value for an array attribute
ArrayReturned ==
    /\ ret # <<>>
    /\ IF stack = <<>> THEN scen.fn = "array" ELSE Head(stack).fn = "object"

\* the count-output of the array template the scenario parses with
CountOutput == Arrays(IF scen.fn = "array" THEN scen.arr ELSE "ints").count

\* C33: on every non-zero return of json_read_array the count-output is as
\* it was before the call, whatever number of elements had been written
\* before the error; it is written only on the success path, and not while
\* the element loop runs.
C33_CountOnlyOnSuccess ==
    /\ \A i \in 1..Len(stack) :
           stack[i].fn = "array" => WritesAt(Arrays(stack[i].arr).count) = 0
    /\ ArrayReturned =>
           WritesAt(CountOutput) = (IF ret[1].status = 0 THEN 1 ELSE 0)
    /\ Done /\ scen.fn = "array" /\ Last.status # 0 =>
           CountOutput \notin DOMAIN Last.mem

\* a three-element text for an integer array of two slots has returned
\* JSON_ERR_SUBTOOLONG with both slots written and the count untouched
C33_Witness ==
    /\ Done /\ WholeArray /\ scen.arr = "ints" /\ scen.mode = "single"
    /\ Len(Elems) = 3
    /\ First.status = JSON_ERR_SUBTOOLONG
    /\ WritesAt(Arrays("ints").store) = 1
    /\ WritesAt(Arrays("ints").store + SizeofInt) = 1
    /\ CountOutput \notin DOMAIN First.mem

\* the scenario parses a text against the template with default-suppression
Sparse == scen.fn = "object" /\ scen.attrs = "sparse"

\* the addresses of the destination of top-level entry e
DestinationOf(e) ==
    {e.addr + k : k \in 0..((IF e.type = "t_string" THEN e.len
                                                     ELSE SizeOfKind(e.type)) - 1)}

\* C34: for an entry whose nodefault flag is set, json_read_object leaves the
\* destination unchanged whenever the text does not name the attribute, while
\* the call runs and after it, on success and on failure alike; the entries
\* whose flag is clear hold their default before the first input byte is
\* examined.
C34_NoDefaultUntouched ==
    Sparse =>
        /\ \A i \in 1..Len(Schema("sparse")) :
               Schema("sparse")[i].nodefault /\ PairsFor(Doc, Schema("sparse")[i]) = {} =>
                   \A a \in DestinationOf(Schema("sparse")[i]) :
                       /\ WritesAt(a) = 0
                       /\ a \notin DOMAIN mem
                       /\ \A k \in 1..Len(results) : a \notin DOMAIN results[k].mem
        /\ Running("object") /\ Head(stack).state = "init" /\ Head(stack).cp = 1 =>
               \A i \in 1..Len(Schema("sparse")) :
                   ~Schema("sparse")[i].nodefault =>
                       Holds(mem, Schema("sparse")[i].addr, Schema("sparse")[i].dflt)

\* a text naming "st" and then an unknown attribute has been rejected: "st"
\* holds its value, "un" its default, "ct" and "fl" are as they were
C34_Witness ==
    /\ Done /\ WholeObject("sparse") /\ Len(Doc) = 2
    /\ Doc[1].name = <<"s", "t">> /\ Doc[2].name = <<"z", "z">>
    /\ First.status = JSON_ERR_BADATTR
    /\ Holds(First.mem, 20, 8)
    /\ HoldsBytes(First.mem, 40, <<"a", "b", "c", NUL>>)
    /\ DOMAIN First.mem = {20, 40, 41, 42, 43}

\* a step of the scan loop of the activation on top, which is still running
\* after it
LoopRound(fn) ==
    /\ Running(fn) /\ Running(fn)'
    /\ Len(stack') = Len(stack)

\* the round consumes an input byte, or is the pushback of in_val_token, which
\* leaves the byte to post_val
Consumes ==
    \/ Head(stack').cp > Head(stack).cp
    \/ /\ Head(stack').cp = Head(stack).cp
       /\ Head(stack).state = "in_val_token" /\ Head(stack').state = "post_val"

\* no cursor is past the terminator and no call has ended the process instead
\* of returning
ScanBounded ==
    /\ \A i \in 1..Len(stack) : stack[i].cp <= Len(input) + 1
    /\ ret # <<>> => ret[1].status # Aborted
    /\ \A k \in 1..Len(results) : results[k].status # Aborted

\* C35: json_read_object and json_read_array return after finitely many
\* steps on every NUL-terminated text: every round of the object reader's
\* loop and of the element loop consumes an input byte or, for the pushback
\* of `,` and `}` after a token, changes state so that the next round
\* consumes it, the \u escape included; no cursor goes past the terminator
\* and every call returns a status.
C35_ReadersReturn ==
    /\ []ScanBounded
    /\ [][(LoopRound("object") \/ LoopRound("array")) => Consumes]_vars

====
